---- MODULE Spec2Model ----
(***************************************************************************)
(* Session orchestration of the ConversaTrait client.                      *)
(*                                                                         *)
(*   AppContainer (src/src/components/app_container_final_fix.js 12-343):  *)
(*   the React state of the analysis, handleAnalyze with its 150 s timer,  *)
(*   the WebSocket effect with its analysis_complete / analysis_error      *)
(*   listeners, handleBackToMainMenu, handleSelectAnalysis.                *)
(*                                                                         *)
(*   APIService (same file, 365-1314): deferred WebSocket initialisation,  *)
(*   the progress / analysis callback maps, analyzeContent,                *)
(*   analyzeWithProgress and request with its retry loop.                  *)
(*                                                                         *)
(* React semantics used by the model (the root is made with                *)
(* ReactDOM.createRoot, line 354): the state setters called by one handler *)
(* are batched, so a handler is one atomic step; a callback made by        *)
(* useCallback reads the state values of the render that made it, and      *)
(* keeps them over an await and inside a setTimeout callback; the          *)
(* passive effect of a render caused by a user event runs with that event, *)
(* while the effect of a render caused by a promise continuation, a timer  *)
(* or a socket event runs in a later task (RunEffect).                     *)
(***************************************************************************)
EXTENDS Integers, Sequences, FiniteSets, TLC

\* ------------------------------------------------------------------ bounds

\* calls of handleAnalyze in one run
MaxSubmissions == 2

\* longest text passed to analyzeContent, in characters
MaxTextLen == 2

\* most phrases in a content given to assessContent
MaxPhrases == 3

\* most assessments kept in the history of one session
MaxAssessments == 2

\* the blocks of a classified text
MaxBlocks == 3

\* the entries of the classifier's cache, with the calls that will add one
MaxCached == 2

\* the values of the clock read by Date.now()
MaxClock == 1

\* the requests given to the queue
MaxQueued == 3

\* ------------------------------------------------------- program constants

\* this.maxInitializationAttempts
maxInitializationAttempts == 10

\* this.retryAttempts
retryAttempts == 3

\* this.retryDelay
retryDelay == 1000

VARIABLES
    \* AppContainer: React state (lines 15-33)
    currentView, analysisResults, isAnalyzing, currentSessionId,
    progress, statusMessage, analysisTimeoutId,
    \* AppContainer: the listeners the WebSocket effect has attached (87-129)
    listener, effectPending,
    \* the calls of handleAnalyze, with what their closure read (137-194)
    subs,
    \* the timers made by setTimeout in handleAnalyze (146-157)
    timers,
    \* APIService (396-410) and the global io of Socket.IO
    socket, isWebSocketInitialized, progressCallbacks, analysisCallbacks,
    ioAvailable, initializationAttempts, polling,
    \* APIService.request (1060-1113): the calls made so far and the running one
    reqPc, reqOptions, reqMax, attempt, calls, fetched, outcomes, sleeps,
    reqResult, reqData,
    \* ContentAnalyzer.analyzeContent (17-63 of ContentAnalyzer.js): the
    \* running or last call
    caPc, caFetches, caError,
    \* InterventionManager (93-98 of part_001); lastAssessment is << >> for
    \* null
    interventionHistory, activeSessions, lastAssessment, debugMode,
    \* how the last call of assessContent ended
    assessOutcome,
    \* ContentClassifier (147-152 of part_000): the cache, the calls of
    \* classifyContent waiting at their await, the text and the result of
    \* the call that returned last, the keys of the calls made since the
    \* cache was last cleared, and the clock
    cache, ccPending, ccReturned, ccIssued, now,
    \* APIService (396-397): the queue of request ids, the flag and the
    \* position of processQueue, the request it is making, and the promise
    \* of each queued request with the fetches made for it
    requestQueue, isProcessingQueue, queuePc, processing, promises,
    \* AppContainer: the React state of the initial check (25-27), the
    \* position of checkApiKey (44-70) and whether its 10 s timer is still to
    \* fire; APIService: apiKey and hasApiKey (380, 1008); the configuration
    \* getApiConfig received last
    hasApiKey, isInitializing, initPc, initTimer, apiService, apiConfig

appVars == <<currentView, analysisResults, isAnalyzing, currentSessionId,
             progress, statusMessage, analysisTimeoutId, listener,
             effectPending, subs, timers>>

svcVars == <<socket, isWebSocketInitialized, progressCallbacks,
             analysisCallbacks, ioAvailable, initializationAttempts, polling>>

reqVars == <<reqPc, reqOptions, reqMax, attempt, calls, fetched, outcomes, sleeps, reqData,
             reqResult>>

caVars == <<caPc, caFetches, caError>>

\* the services that stand apart from AppContainer and APIService
imVars == <<interventionHistory, activeSessions, lastAssessment, debugMode,
            assessOutcome>>

ccVars == <<cache, ccPending, ccReturned, ccIssued, now>>

queueVars == <<requestQueue, isProcessingQueue, queuePc, processing, promises>>

initVars == <<hasApiKey, isInitializing, initPc, initTimer, apiService,
              apiConfig>>

libVars == <<caVars, imVars, ccVars, queueVars, initVars>>

vars == <<appVars, svcVars, reqVars, libVars>>

\* ------------------------------------------------------------------ values

\* analysisResults: null, or what a terminal path stored
Null == [kind |-> "null", of |-> 0]

TimeoutError == [kind |-> "timeout", of |-> 0]

\* a session id of another client of the shared event channel
OtherSession == MaxSubmissions + 1

\* the payloads of analysis_progress
ProgressInputs == { [progress |-> 0, message |-> ""],
                    [progress |-> 50, message |-> "Working"] }

\* the responses of POST /api/analyze as handleAnalyze sees them
ResponseKinds == {"started", "sessionNoStart", "sync", "syncError", "throw"}

HasSession(kind) == kind \in {"started", "sessionNoStart"}

\* ---------------------------------------------------------------- helpers

\* clearTimeout(id): an armed timer is cancelled, any other id is ignored
clearTimeout(tm, id) ==
    IF id \in 1..Len(tm) /\ tm[id] = "armed"
    THEN [tm EXCEPT ![id] = "cleared"]
    ELSE tm

\* clearAnalysisTimeout of a render whose analysisTimeoutId was tid: timers
clearAnalysisTimeoutTimers(tm, tid) ==
    IF tid # 0 THEN clearTimeout(tm, tid) ELSE tm

\* clearAnalysisTimeout of a render whose analysisTimeoutId was tid: the state
clearAnalysisTimeoutId(cur, tid) ==
    IF tid # 0 THEN 0 ELSE cur

\* data.session_id === currentSessionId in the effect's listeners
SessionMatches(dataSid, sid) == dataSid = sid

\* the body of the WebSocket effect for a render with (sid, tid)
EffectSetup(sid, tid) ==
    IF socket /\ sid # 0
    THEN [on |-> TRUE, sid |-> sid, tid |-> tid]
    ELSE [on |-> FALSE, sid |-> 0, tid |-> 0]

\* the effect pending from an earlier render runs before the next render
Flushed == IF effectPending
           THEN EffectSetup(currentSessionId, analysisTimeoutId)
           ELSE listener

\* a user event: the render and its effect run with the event
SyncEffect(sid, tid) ==
    /\ listener' = IF effectPending \/ <<sid, tid>> # <<currentSessionId, analysisTimeoutId>>
                   THEN EffectSetup(sid, tid)
                   ELSE listener
    /\ effectPending' = FALSE

\* a continuation, timer or socket event: the effect of its render runs later
AsyncEffect(sid, tid) ==
    /\ listener' = Flushed
    /\ effectPending' = (<<sid, tid>> # <<currentSessionId, analysisTimeoutId>>)

\* the session ids the backend has issued to this client
Issued == { i \in 1..Len(subs) : subs[i].state = "session" }

EventSessions == Issued \cup {OtherSession}

\* -------------------------------------------------------------------- Init

InitApp ==
    /\ currentView = "mainMenu"
    /\ analysisResults = Null
    /\ isAnalyzing = FALSE
    /\ currentSessionId = 0
    /\ progress = 0
    /\ statusMessage = ""
    /\ analysisTimeoutId = 0
    /\ listener = [on |-> FALSE, sid |-> 0, tid |-> 0]
    /\ effectPending = FALSE
    /\ subs = <<>>
    /\ timers = <<>>

\* the constructor: deferredInitializeWebSocket either finds io and calls
\* initializeWebSocket at once, or starts polling
InitSvc ==
    /\ ioAvailable \in BOOLEAN
    /\ socket = ioAvailable
    /\ isWebSocketInitialized = FALSE
    /\ polling = ~ioAvailable
    /\ initializationAttempts = 0
    /\ progressCallbacks = {}
    /\ analysisCallbacks = {}

InitReq ==
    /\ reqPc = "idle"
    /\ reqMax = 0
    /\ reqOptions = [retryAttempts |-> 0, retryDelay |-> 0]
    /\ attempt = 0
    /\ calls = 0
    /\ reqData = <<>>
    /\ fetched = <<>>
    /\ outcomes = <<>>
    /\ sleeps = <<>>
    /\ reqResult = [type |-> "none", status |-> 0]

\* new ContentAnalyzer(apiService)
InitCA ==
    /\ caPc = "idle"
    /\ caFetches = 0
    /\ caError = ""

\* new InterventionManager()
InitIM ==
    /\ interventionHistory = << >>
    /\ activeSessions = {}
    /\ lastAssessment = << >>
    /\ debugMode = TRUE
    /\ assessOutcome = "none"

\* new APIService(): requestQueue = [], isProcessingQueue = false
InitQueue ==
    /\ requestQueue = << >>
    /\ isProcessingQueue = FALSE
    /\ queuePc = "idle"
    /\ processing = 0
    /\ promises = << >>

\* new ContentClassifier(categoryManager): this.cache = new Map()
InitCC ==
    /\ cache = << >>
    /\ ccPending = << >>
    /\ ccReturned = << >>
    /\ ccIssued = {}
    /\ now = 0

\* AppContainer before its effects have run (25-27) and the APIService made
\* without options (351, 380); hasApiKey of the service is undefined until
\* getApiConfig sets it, which reads as false
InitMount ==
    /\ hasApiKey = FALSE
    /\ isInitializing = TRUE
    /\ initPc = "mount"
    /\ initTimer = FALSE
    /\ apiService = [apiKey |-> <<>>, hasApiKey |-> FALSE]
    /\ apiConfig = [kind |-> "none"]

InitLib == InitCA /\ InitIM /\ InitCC /\ InitQueue /\ InitMount

Init == InitApp /\ InitSvc /\ InitReq /\ InitLib

\* --------------------------------------------------- APIService: WebSocket

\* the Socket.IO script finishes loading
IoLoads ==
    /\ ~ioAvailable
    /\ ioAvailable' = TRUE
    /\ UNCHANGED <<socket, isWebSocketInitialized, progressCallbacks,
                   analysisCallbacks, initializationAttempts, polling>>
    /\ UNCHANGED <<appVars, reqVars, libVars>>

\* checkSocketIO, the polling callback of pollForSocketIOInAPIService
checkSocketIO ==
    /\ polling
    /\ initializationAttempts' = initializationAttempts + 1
    /\ IF ioAvailable
       THEN /\ isWebSocketInitialized' = TRUE
            /\ socket' = TRUE
            /\ polling' = FALSE
       ELSE /\ polling' = (initializationAttempts + 1 < maxInitializationAttempts)
            /\ UNCHANGED <<socket, isWebSocketInitialized>>
    /\ UNCHANGED <<ioAvailable, progressCallbacks, analysisCallbacks>>
    /\ UNCHANGED <<appVars, reqVars, libVars>>

\* ------------------------------------------------------------ AppContainer

\* handleSelectAnalysis, called by the main menu
handleSelectAnalysis(relationship) ==
    /\ currentView = "mainMenu"
    /\ currentView' = IF relationship THEN "relationshipAnalysis" ELSE "analysis"
    /\ analysisResults' = Null
    /\ SyncEffect(currentSessionId, analysisTimeoutId)
    /\ UNCHANGED <<isAnalyzing, currentSessionId, progress, statusMessage,
                   analysisTimeoutId, subs, timers>>
    /\ UNCHANGED <<svcVars, reqVars, libVars>>

\* handleBackToMainMenu, called by the header button and the analysis views
handleBackToMainMenu ==
    /\ currentView # "mainMenu"
    /\ currentView' = "mainMenu"
    /\ analysisResults' = Null
    /\ isAnalyzing' = FALSE
    /\ progress' = 0
    /\ statusMessage' = ""
    /\ currentSessionId' = 0
    /\ timers' = clearAnalysisTimeoutTimers(timers, analysisTimeoutId)
    /\ analysisTimeoutId' = 0
    /\ SyncEffect(0, 0)
    /\ UNCHANGED subs
    /\ UNCHANGED <<svcVars, reqVars, libVars>>

\* handleAnalyze up to its await: the closure was made by the current render,
\* so it reads this render's isAnalyzing and analysisTimeoutId from here on;
\* analyzeContent chooses its path (655) when it is called
handleAnalyze ==
    /\ currentView \in {"analysis", "relationshipAnalysis"}
    /\ Len(subs) < MaxSubmissions
    /\ LET t == Len(timers) + 1 IN
        /\ timers' = Append(clearAnalysisTimeoutTimers(timers, analysisTimeoutId), "armed")
        /\ analysisTimeoutId' = t
        /\ subs' = Append(subs, [state |-> "pending",
                                 capIsAnalyzing |-> isAnalyzing,
                                 capTimeoutId |-> analysisTimeoutId,
                                 viaProgress |-> (socket /\ isWebSocketInitialized)])
        /\ SyncEffect(0, t)
    /\ isAnalyzing' = TRUE
    /\ analysisResults' = Null
    /\ progress' = 0
    /\ statusMessage' = "Initiating analysis..."
    /\ currentSessionId' = 0
    /\ UNCHANGED currentView
    /\ UNCHANGED <<svcVars, reqVars, libVars>>

\* the callback of the 150 s timer of submission i: it reads the isAnalyzing
\* of the render that made handleAnalyze
TimerFires(i) ==
    /\ i \in 1..Len(timers)
    /\ timers[i] = "armed"
    /\ timers' = [timers EXCEPT ![i] = "fired"]
    /\ IF subs[i].capIsAnalyzing
       THEN /\ analysisResults' = TimeoutError
            /\ isAnalyzing' = FALSE
       ELSE UNCHANGED <<analysisResults, isAnalyzing>>
    /\ AsyncEffect(currentSessionId, analysisTimeoutId)
    /\ UNCHANGED <<currentView, currentSessionId, progress, statusMessage,
                   analysisTimeoutId, subs>>
    /\ UNCHANGED <<svcVars, reqVars, libVars>>

\* the promise of analyzeContent settles for submission i: the .then of
\* analyzeWithProgress (677-704) and the rest of handleAnalyze (170-193)
HttpResponse(i, kind) ==
    /\ i \in 1..Len(subs)
    /\ subs[i].state = "pending"
    /\ subs' = [subs EXCEPT ![i].state = IF HasSession(kind) THEN "session" ELSE "final"]
    /\ IF subs[i].viaProgress /\ kind = "started"
       THEN /\ progressCallbacks' = progressCallbacks \cup {i}
            /\ analysisCallbacks' = analysisCallbacks \cup {i}
       ELSE UNCHANGED <<progressCallbacks, analysisCallbacks>>
    /\ IF HasSession(kind)
       THEN /\ currentSessionId' = i
            /\ AsyncEffect(i, analysisTimeoutId)
            /\ UNCHANGED <<analysisResults, isAnalyzing, progress,
                           statusMessage, analysisTimeoutId, timers>>
       ELSE /\ timers' = clearAnalysisTimeoutTimers(timers, subs[i].capTimeoutId)
            /\ analysisTimeoutId' = clearAnalysisTimeoutId(analysisTimeoutId, subs[i].capTimeoutId)
            /\ analysisResults' = [kind |-> kind, of |-> i]
            /\ isAnalyzing' = FALSE
            /\ IF kind = "sync"
               THEN /\ progress' = 100
                    /\ statusMessage' = "Analysis complete!"
               ELSE UNCHANGED <<progress, statusMessage>>
            /\ AsyncEffect(currentSessionId,
                           clearAnalysisTimeoutId(analysisTimeoutId, subs[i].capTimeoutId))
            /\ UNCHANGED currentSessionId
    /\ UNCHANGED currentView
    /\ UNCHANGED <<socket, isWebSocketInitialized, ioAvailable,
                   initializationAttempts, polling>>
    /\ UNCHANGED <<reqVars, libVars>>

\* the passive effect of the last render runs: cleanup, then setup
RunEffect ==
    /\ effectPending
    /\ listener' = EffectSetup(currentSessionId, analysisTimeoutId)
    /\ effectPending' = FALSE
    /\ UNCHANGED <<currentView, analysisResults, isAnalyzing, currentSessionId,
                   progress, statusMessage, analysisTimeoutId, subs, timers>>
    /\ UNCHANGED <<svcVars, reqVars, libVars>>

\* ----------------------------------------------------------- socket events

\* setProgress(progressData.progress || 0)
ProgressValue(data) == data.progress

\* setStatusMessage(progressData.message || 'Analysis in progress...')
StatusValue(data) == IF data.message = "" THEN "Analysis in progress..." ELSE data.message

\* this.progressCallbacks.get(data.session_id): the analysis_progress handler
\* of APIService looks the callback up by the event's session id alone
ProgressCallbackFor(sid) == sid \in progressCallbacks

\* the onProgress callback that handleAnalyze passes to analyzeContent
onProgressEndsAnalysis(data) ==
    /\ progress' = ProgressValue(data)
    /\ statusMessage' = StatusValue(data)
    /\ isAnalyzing' = FALSE
    /\ UNCHANGED analysisResults

onProgress(data) ==
    /\ progress' = ProgressValue(data)
    /\ statusMessage' = StatusValue(data)
    /\ UNCHANGED <<isAnalyzing, analysisResults>>

\* analysis_progress {session_id: s, ...data}: the handler of APIService
\* (558-564) calls the onProgress that handleAnalyze passed (163-167)
AnalysisProgress(s, data) ==
    /\ socket
    /\ s \in EventSessions
    /\ IF ProgressCallbackFor(s)
       THEN onProgress(data)
       ELSE UNCHANGED <<progress, statusMessage, isAnalyzing, analysisResults>>
    /\ AsyncEffect(currentSessionId, analysisTimeoutId)
    /\ UNCHANGED <<currentView, currentSessionId, analysisTimeoutId, subs, timers>>
    /\ UNCHANGED <<svcVars, reqVars, libVars>>

\* the analysis_complete / analysis_error handlers of APIService (566-584):
\* the stored callback settles a promise that is already resolved (699), and
\* both entries of the session are deleted
DeleteCallbacks(s) ==
    IF s \in analysisCallbacks
    THEN /\ progressCallbacks' = progressCallbacks \ {s}
         /\ analysisCallbacks' = analysisCallbacks \ {s}
    ELSE UNCHANGED <<progressCallbacks, analysisCallbacks>>

\* analysis_complete {session_id: s}: APIService's handler, then
\* handleAnalysisComplete of the attached effect (95-105)
AnalysisComplete(s) ==
    /\ socket
    /\ s \in EventSessions
    /\ DeleteCallbacks(s)
    /\ IF listener.on /\ SessionMatches(s, listener.sid)
       THEN /\ timers' = clearAnalysisTimeoutTimers(timers, listener.tid)
            /\ analysisTimeoutId' = clearAnalysisTimeoutId(analysisTimeoutId, listener.tid)
            /\ analysisResults' = [kind |-> "complete", of |-> s]
            /\ isAnalyzing' = FALSE
            /\ progress' = 100
            /\ statusMessage' = "Analysis complete!"
            /\ AsyncEffect(currentSessionId,
                           clearAnalysisTimeoutId(analysisTimeoutId, listener.tid))
       ELSE /\ AsyncEffect(currentSessionId, analysisTimeoutId)
            /\ UNCHANGED <<timers, analysisTimeoutId, analysisResults,
                           isAnalyzing, progress, statusMessage>>
    /\ UNCHANGED <<currentView, currentSessionId, subs>>
    /\ UNCHANGED <<socket, isWebSocketInitialized, ioAvailable,
                   initializationAttempts, polling>>
    /\ UNCHANGED <<reqVars, libVars>>

\* analysis_error {session_id: s}: APIService's handler, then
\* handleAnalysisError of the attached effect (107-118)
AnalysisError(s) ==
    /\ socket
    /\ s \in EventSessions
    /\ DeleteCallbacks(s)
    /\ IF listener.on /\ SessionMatches(s, listener.sid)
       THEN /\ timers' = clearAnalysisTimeoutTimers(timers, listener.tid)
            /\ analysisTimeoutId' = clearAnalysisTimeoutId(analysisTimeoutId, listener.tid)
            /\ analysisResults' = [kind |-> "wsError", of |-> s]
            /\ isAnalyzing' = FALSE
            /\ AsyncEffect(currentSessionId,
                           clearAnalysisTimeoutId(analysisTimeoutId, listener.tid))
            /\ UNCHANGED <<progress, statusMessage>>
       ELSE /\ AsyncEffect(currentSessionId, analysisTimeoutId)
            /\ UNCHANGED <<timers, analysisTimeoutId, analysisResults,
                           isAnalyzing, progress, statusMessage>>
    /\ UNCHANGED <<currentView, currentSessionId, subs>>
    /\ UNCHANGED <<socket, isWebSocketInitialized, ioAvailable,
                   initializationAttempts, polling>>
    /\ UNCHANGED <<reqVars, libVars>>

\* --------------------------------------------------- specification: Spec

Next ==
    \/ \E r \in BOOLEAN : handleSelectAnalysis(r)
    \/ handleBackToMainMenu
    \/ handleAnalyze
    \/ \E i \in 1..MaxSubmissions : TimerFires(i)
    \/ \E i \in 1..MaxSubmissions, k \in ResponseKinds : HttpResponse(i, k)
    \/ RunEffect
    \/ \E s \in 1..(MaxSubmissions + 1), d \in ProgressInputs : AnalysisProgress(s, d)
    \/ \E s \in 1..(MaxSubmissions + 1) : AnalysisComplete(s)
    \/ \E s \in 1..(MaxSubmissions + 1) : AnalysisError(s)

\* the state once the WebSocket initialisation of the constructor has settled:
\* no socket (Socket.IO never found), a socket made by the constructor (438),
\* or a socket made by the polling callback, which alone sets
\* isWebSocketInitialized (474-475)
InitSettled ==
    /\ ioAvailable \in BOOLEAN
    /\ socket = ioAvailable
    /\ isWebSocketInitialized \in BOOLEAN
    /\ isWebSocketInitialized => socket
    /\ polling = FALSE
    /\ initializationAttempts = IF isWebSocketInitialized THEN 1
                                ELSE IF socket THEN 0 ELSE maxInitializationAttempts
    /\ progressCallbacks = {}
    /\ analysisCallbacks = {}

InitOrchestrator == InitApp /\ InitSettled /\ InitReq /\ InitLib

Spec == InitOrchestrator /\ [][Next]_vars

\* ------------------------------------------------------ APIService.request

\* the HTTP statuses makeRequest ends with: 200, or the status of the APIError
\* it throws (0: 'Network request failed', 408: 'Request timeout')
StatusCodes == {200, 0, 400, 404, 408, 429, 500, 503}

\* the status of an APIError built without one (statusCode = null)
NullStatus == 0 - 1

\* the ways the fetch of makeRequest settles: a response with an HTTP status,
\* the abort of the client timeout (AbortError), any other failure
FetchOutcomes ==
    { [kind |-> "response", status |-> s] : s \in StatusCodes \ {0} }
    \cup { [kind |-> "abort", status |-> 0], [kind |-> "network", status |-> 0] }

\* the status makeRequest settles with: the response's status, 408 for an
\* AbortError, 0 for any other error that is no APIError
settledStatus(f) ==
    IF f.kind = "response" THEN f.status
    ELSE IF f.kind = "abort" THEN 408
    ELSE 0

\* !this.status
Falsy(status) == status = 0 \/ status = NullStatus

\* options.retryAttempts and options.retryDelay (0: not given)
RetryAttemptsOptions == {0, 1, 2, 4}

RetryDelayOptions == {0, 500}

\* APIError.isRetryable
isRetryableNever4xx(status) ==
    IF status >= 400 /\ status < 500
    THEN FALSE
    ELSE status >= 500 \/ Falsy(status)

isRetryable(status) ==
    IF status >= 400 /\ status < 500
    THEN status = 408 \/ status = 429
    ELSE status >= 500 \/ Falsy(status)

\* Math.pow(2, n)
RECURSIVE Pow2(_)
Pow2(n) == IF n <= 0 THEN 1 ELSE 2 * Pow2(n - 1)

\* options.retryAttempts || this.retryAttempts
maxAttempts(opt) == IF opt # 0 THEN opt ELSE retryAttempts

\* the catch block of request: a non-retryable APIError is rethrown at once,
\* any error is rethrown on the last attempt
rethrowsOnLastOnly(status, att, max) == att >= max

rethrows(status, att, max) == ~isRetryable(status) \/ att >= max

\* (options.retryDelay || this.retryDelay) * Math.pow(2, attempt - 1)
delayLinear(optDelay, att) == (IF optDelay # 0 THEN optDelay ELSE retryDelay) * att

delay(optDelay, att) == (IF optDelay # 0 THEN optDelay ELSE retryDelay) * Pow2(att - 1)

\* request(method, endpoint, data, options) without options.queued, up to the
\* first call of makeRequest
requestStarts(optAttempts, optDelay) ==
    /\ reqPc \in {"idle", "returned", "thrown"}
    /\ reqMax' = maxAttempts(optAttempts)
    /\ reqOptions' = [retryAttempts |-> optAttempts, retryDelay |-> optDelay]
    /\ attempt' = 0
    /\ calls' = 0
    /\ reqData' = <<>>
    /\ fetched' = <<>>
    /\ outcomes' = <<>>
    /\ sleeps' = <<>>
    /\ reqResult' = [type |-> "none", status |-> 0]
    /\ reqPc' = "call"

request(optAttempts, optDelay) ==
    /\ requestStarts(optAttempts, optDelay)
    /\ UNCHANGED <<appVars, svcVars, libVars>>

\* one pass of the while loop: the fetch of makeRequest settles as f and
\* makeRequest settles with status; the catch block counts the attempt and
\* rethrows or goes to sleep
makeRequest(f) ==
  LET status == settledStatus(f) IN
    /\ reqPc = "call"
    /\ attempt < reqMax
    /\ calls' = calls + 1
    /\ fetched' = Append(fetched, f.kind)
    /\ outcomes' = Append(outcomes, status)
    /\ IF status = 200
       THEN /\ reqResult' = [type |-> "response", status |-> status]
            /\ reqPc' = "returned"
            /\ UNCHANGED <<attempt, sleeps>>
       ELSE /\ attempt' = attempt + 1
            /\ IF rethrows(status, attempt + 1, reqMax)
               THEN /\ reqResult' = [type |-> "error", status |-> status]
                    /\ reqPc' = "thrown"
                    /\ UNCHANGED sleeps
               ELSE /\ sleeps' = Append(sleeps, delay(reqOptions.retryDelay, attempt + 1))
                    /\ reqPc' = "sleep"
                    /\ UNCHANGED reqResult
    /\ UNCHANGED <<reqOptions, reqMax, reqData>>
    /\ UNCHANGED <<appVars, svcVars, libVars>>

\* await this.sleep(delay) ends
sleep ==
    /\ reqPc = "sleep"
    /\ reqPc' = "call"
    /\ UNCHANGED <<reqOptions, reqMax, attempt, calls, fetched, outcomes, sleeps,
                   reqResult, reqData>>
    /\ UNCHANGED <<appVars, svcVars, libVars>>

\* --------------------------------------------- validation of the arguments

\* the characters of the texts: a blank and a letter
Chars == {" ", "a"}

Strings == UNION { [1..n -> Chars] : n \in 0..MaxTextLen }

\* JavaScript values passed as text, content or analysis type: undefined, a
\* number other than 0, and the strings
Undefined == [type |-> "undefined", chars |-> <<>>]

NumberValue == [type |-> "number", chars |-> <<>>]

Str(s) == [type |-> "string", chars |-> s]

JsValues == {Undefined, NumberValue} \cup { Str(s) : s \in Strings }

\* the truthiness of a value: !v is ~Truthy(v)
Truthy(v) == v.type = "number" \/ (v.type = "string" /\ v.chars # <<>>)

\* String.prototype.trim
RECURSIVE trimStart(_)
trimStart(s) == IF s # <<>> /\ Head(s) = " " THEN trimStart(Tail(s)) ELSE s

RECURSIVE trimEnd(_)
trimEnd(s) ==
    IF s # <<>> /\ s[Len(s)] = " " THEN trimEnd(SubSeq(s, 1, Len(s) - 1)) ELSE s

trim(s) == trimEnd(trimStart(s))

\* !options.text || !options.text.trim(), for a text that has a trim method
noTextUntrimmed(text) == ~Truthy(text)

noText(text) == ~Truthy(text) \/ ~Truthy(Str(trim(text.chars)))

\* APIService.analyzeContent(options) with options.text = text: throws
\* APIError 400 for no text, a TypeError for a text without a trim method,
\* and else posts the payload with the trimmed text by this.request, straight
\* or inside analyzeWithProgress
analyzeContent(text) ==
    /\ reqPc \in {"idle", "returned", "thrown"}
    /\ reqOptions' = [retryAttempts |-> 0, retryDelay |-> 0]
    /\ attempt' = 0
    /\ calls' = 0
    /\ fetched' = <<>>
    /\ outcomes' = <<>>
    /\ sleeps' = <<>>
    /\ IF text.type \in {"string", "undefined"} /\ noText(text)
       THEN /\ reqResult' = [type |-> "error", status |-> 400]
            /\ reqPc' = "thrown"
            /\ reqData' = <<>>
            /\ reqMax' = 0
       ELSE IF text.type # "string"
       THEN /\ reqResult' = [type |-> "TypeError", status |-> NullStatus]
            /\ reqPc' = "thrown"
            /\ reqData' = <<>>
            /\ reqMax' = 0
       ELSE /\ reqResult' = [type |-> "none", status |-> 0]
            /\ reqPc' = "call"
            /\ reqData' = trim(text.chars)
            /\ reqMax' = maxAttempts(0)
    /\ UNCHANGED <<appVars, svcVars, libVars>>

\* options.analysisType || options.analysis_type
analysisTypeOf(analysisType, analysis_type) ==
    IF Truthy(analysisType) THEN analysisType ELSE analysis_type

AnalysisTypes == {Undefined, Str(<<>>), Str(<<"a">>)}

\* ContentAnalyzer.analyzeContent(content, options) up to its fetch
ContentAnalyzer_analyzeContent(content, analysisType, analysis_type) ==
    /\ caPc # "fetch"
    /\ IF ~Truthy(content) \/ content.type # "string"
       THEN /\ caError' = "Content must be a non-empty string"
            /\ caPc' = "thrown"
            /\ caFetches' = 0
       ELSE IF ~Truthy(analysisTypeOf(analysisType, analysis_type))
       THEN /\ caError' = "Analysis type must be specified"
            /\ caPc' = "thrown"
            /\ caFetches' = 0
       ELSE /\ caError' = ""
            /\ caPc' = "fetch"
            /\ caFetches' = 1
    /\ UNCHANGED <<appVars, svcVars, reqVars, imVars, ccVars, queueVars, initVars>>

\* the ways the fetch of ContentAnalyzer.analyzeContent ends
ContentFetchOutcomes == {"success", "notOk", "notSuccess", "rejected"}

\* ContentAnalyzer.analyzeContent after its fetch
ContentAnalyzer_fetchSettles(outcome) ==
    /\ caPc = "fetch"
    /\ IF outcome = "success"
       THEN caPc' = "returned" /\ caError' = ""
       ELSE caPc' = "thrown" /\ caError' = outcome
    /\ UNCHANGED caFetches
    /\ UNCHANGED <<appVars, svcVars, reqVars, imVars, ccVars, queueVars, initVars>>

NextRequest ==
    \/ \E a \in RetryAttemptsOptions, d \in RetryDelayOptions : request(a, d)
    \/ \E f \in FetchOutcomes : makeRequest(f)
    \/ sleep

\* fetch settles (the abort timer of makeRequest, 1140) and the timer of
\* sleep fires
SpecRequest ==
    /\ Init
    /\ [][NextRequest]_vars
    /\ WF_vars(\E f \in FetchOutcomes : makeRequest(f))
    /\ WF_vars(sleep)

\* how the requests of the analysis end: a result, a server error, a timeout
AnalysisFetchOutcomes ==
    { f \in FetchOutcomes : f.kind = "abort" \/ f.status \in {200, 500} }

\* the calls of analyzeContent of APIService and of ContentAnalyzer with any
\* arguments, and the requests they lead to
NextValidation ==
    \/ \E text \in JsValues : analyzeContent(text)
    \/ \E f \in AnalysisFetchOutcomes : makeRequest(f)
    \/ sleep
    \/ \E content \in JsValues, t1 \in AnalysisTypes, t2 \in AnalysisTypes :
          ContentAnalyzer_analyzeContent(content, t1, t2)
    \/ \E outcome \in ContentFetchOutcomes : ContentAnalyzer_fetchSettles(outcome)

SpecValidation == Init /\ [][NextValidation]_vars


\* ------------------------------------------------------ InterventionManager

\* The texts assessed are built from the phrases below; a content is the set
\* of phrases it is made of (joined by ". " in any order).  matched(phrase)
\* lists the patterns of contextExclusions, crisisPatterns and concernPatterns
\* (category, position in its list) whose regular expression finds a match
\* in the phrase; no pattern matches across two phrases of these contents.
Phrases ==
    { "I want to kill myself", "I can't go on anymore", "I want to hurt myself",
      "I want to overdose", "I have pills to overdose", "I will hurt you",
      "stuck in traffic with the kids", "just kidding",
      "my doctor", "talking about a friend", "last year",
      "hopeless", "nothing matters", "can't cope", "hate myself",
      "panic attack", "always anxious", "cant breathe",
      "completely alone", "no friends", "isolated",
      "I feel so hopeless and worthless, nothing matters anymore" }

matched(phrase) ==
    CASE phrase = "I want to kill myself" -> { <<"activeSuicideIntent", 1>> }
      [] phrase = "I can't go on anymore" ->
            { <<"activeSuicideIntent", 2>>, <<"depression", 3>> }
      [] phrase = "I want to hurt myself" -> { <<"activeSelfHarmIntent", 1>> }
      [] phrase = "I want to overdose" -> { <<"activeOverdoseIntent", 1>> }
      [] phrase = "I have pills to overdose" ->
            { <<"activeOverdoseIntent", 2>>, <<"medicalDiscussion", 2>> }
      [] phrase = "I will hurt you" -> { <<"directViolentThreats", 1>> }
      [] phrase = "stuck in traffic with the kids" -> { <<"illegalContent", 2>> }
      [] phrase = "just kidding" -> { <<"trolling", 1>> }
      [] phrase = "my doctor" -> { <<"medicalDiscussion", 1>> }
      [] phrase = "talking about a friend" ->
            { <<"thirdPersonDiscussion", 3>>, <<"educationalContext", 1>> }
      [] phrase = "last year" -> { <<"pastEvents", 1>> }
      [] phrase = "hopeless" -> { <<"depression", 1>> }
      [] phrase = "nothing matters" -> { <<"depression", 2>> }
      [] phrase = "can't cope" -> { <<"depression", 3>> }
      [] phrase = "hate myself" -> { <<"depression", 4>> }
      [] phrase = "panic attack" -> { <<"anxiety", 1>> }
      [] phrase = "always anxious" -> { <<"anxiety", 2>> }
      [] phrase = "cant breathe" -> { <<"anxiety", 3>> }
      [] phrase = "completely alone" -> { <<"isolation", 1>> }
      [] phrase = "no friends" -> { <<"isolation", 2>> }
      [] phrase = "isolated" -> { <<"isolation", 3>> }
      [] phrase = "I feel so hopeless and worthless, nothing matters anymore" ->
            { <<"depression", 1>>, <<"depression", 2>> }

\* the contents of at most k phrases
RECURSIVE PhraseSets(_)
PhraseSets(k) ==
    IF k = 0 THEN { {} }
    ELSE LET smaller == PhraseSets(k - 1)
         IN  smaller \cup { c \cup {p} : c \in smaller, p \in Phrases }

Contents == PhraseSets(MaxPhrases)

\* pattern.test(content), content.match(pattern)
test(pattern, content) == \E phrase \in content : pattern \in matched(phrase)

\* the patterns of category 1..n, in the order of its list
PatternsOf(category, n) == [i \in 1..n |-> <<category, i>>]

\* the pattern tables, flattened in the order Object.entries walks them
contextExclusions ==
    PatternsOf("medicalDiscussion", 4) \o PatternsOf("thirdPersonDiscussion", 3)
    \o PatternsOf("pastEvents", 3) \o PatternsOf("educationalContext", 2)

crisisPatterns ==
    PatternsOf("trolling", 3) \o PatternsOf("activeSuicideIntent", 4)
    \o PatternsOf("activeSelfHarmIntent", 3) \o PatternsOf("activeOverdoseIntent", 2)
    \o PatternsOf("directViolentThreats", 3) \o PatternsOf("illegalContent", 3)

concernPatterns ==
    << PatternsOf("depression", 4), PatternsOf("anxiety", 3),
       PatternsOf("isolation", 3) >>

\* severities are in hundredths
severityMap ==
    [ trolling |-> 70, suicide |-> 100, selfHarm |-> 90, overdoseIntent |-> 100,
      violentThreats |-> 100, illegalContent |-> 100 ]

\* severityMap[category] || 0.5
getSeverityForCategory(category) ==
    IF category \in DOMAIN severityMap THEN severityMap[category] ELSE 50

\* hasExcludingContext ? 0.9 : 0.7
severityThresholdFlat(hasExcludingContext) == 70

severityThreshold(hasExcludingContext) == IF hasExcludingContext THEN 90 ELSE 70

\* !hasExcludingContext || severity >= severityThreshold
shouldTriggerAlways(hasExcludingContext, severity) == TRUE

shouldTriggerBySeverity(hasExcludingContext, severity) ==
    severity >= severityThreshold(hasExcludingContext)

shouldTrigger(hasExcludingContext, severity) ==
    ~hasExcludingContext \/ severity >= severityThreshold(hasExcludingContext)

\* checkCrisisIndicators(content): the triggers, and in debugInfo the
\* exclusion patterns found followed by the crisis patterns found
checkCrisisIndicators(content) ==
    LET Found(pattern) == test(pattern, content)
        exclusions == SelectSeq(contextExclusions, Found)
        hasExcludingContext == exclusions # <<>>
        found == SelectSeq(crisisPatterns, Found)
        Triggers(pattern) ==
            shouldTrigger(hasExcludingContext, getSeverityForCategory(pattern[1]))
        triggering == SelectSeq(found, Triggers)
        triggers ==
            [ k \in 1..Len(triggering) |->
                [ type |-> triggering[k][1],
                  pattern |-> triggering[k][2],
                  severity |-> getSeverityForCategory(triggering[k][1]),
                  confidence |-> IF hasExcludingContext THEN "low" ELSE "high" ] ]
        customMessage ==
            IF \E k \in 1..Len(triggers) : triggers[k].type = "trolling"
            THEN << [ type |-> "customMessage", pattern |-> 0, severity |-> 0,
                      confidence |-> "" ] >>
            ELSE << >>
    IN  [ detected |-> triggering # <<>>,
          triggers |-> triggers \o customMessage,
          debugInfo |->
            [ k \in 1..Len(exclusions) |->
                [ type |-> "context_exclusion", category |-> exclusions[k][1],
                  pattern |-> exclusions[k][2], severity |-> 0,
                  triggered |-> FALSE, reason |-> "legitimate discussion" ] ]
            \o
            [ k \in 1..Len(found) |->
                [ type |-> "pattern_match", category |-> found[k][1],
                  pattern |-> found[k][2],
                  severity |-> getSeverityForCategory(found[k][1]),
                  triggered |-> Triggers(found[k]),
                  reason |-> IF Triggers(found[k]) THEN "Crisis pattern detected"
                             ELSE "Suppressed due to context" ] ] ]

\* the sum of the severities of concerns, a fraction num / den
RECURSIVE sumSeverity(_)
sumSeverity(concerns) ==
    IF concerns = <<>> THEN [num |-> 0, den |-> 1]
    ELSE LET s == Head(concerns).severity
             rest == sumSeverity(Tail(concerns))
         IN  [ num |-> s.num * rest.den + rest.num * s.den,
               den |-> s.den * rest.den ]

\* analyzeContent(content) of InterventionManager: a concern for each
\* category with a pattern found, its severity the fraction of the
\* category's patterns found; the overall severity their mean, else 0.
\* Severities are exact fractions: no mean of these fractions is within
\* 1/200 of a threshold of determineRiskLevel, so the rounding of the
\* floating-point division changes no comparison.
InterventionManager_analyzeContent(content) ==
    LET Found(pattern) == test(pattern, content)
        Matches(k) == SelectSeq(concernPatterns[k], Found)
        Concerned(k) == Matches(k) # <<>>
        categories == SelectSeq(<<1, 2, 3>>, Concerned)
        concerns ==
            [ j \in 1..Len(categories) |->
                [ type |-> concernPatterns[categories[j]][1][1],
                  matches |-> Matches(categories[j]),
                  severity |-> [ num |-> Len(Matches(categories[j])),
                                 den |-> Len(concernPatterns[categories[j]]) ] ] ]
        sum == sumSeverity(concerns)
    IN  [ triggers |-> <<>>,
          concerns |-> concerns,
          severity |-> IF concerns = <<>> THEN [num |-> 0, den |-> 1]
                       ELSE [num |-> sum.num, den |-> sum.den * Len(concerns)] ]

\* determineRiskLevel(analysis), on analysis.severity
determineRiskLevelShifted(severity) ==
    IF severity.num * 10 >= 8 * severity.den THEN "HIGH"
    ELSE IF severity.num * 10 >= 7 * severity.den THEN "MEDIUM"
    ELSE IF severity.num * 10 >= 3 * severity.den THEN "LOW"
    ELSE "NONE"

determineRiskLevel(severity) ==
    IF severity.num * 10 >= 8 * severity.den THEN "HIGH"
    ELSE IF severity.num * 10 >= 6 * severity.den THEN "MEDIUM"
    ELSE IF severity.num * 10 >= 3 * severity.den THEN "LOW"
    ELSE "NONE"

\* RISK_LEVELS[riskLevel].requiresAction
requiresAction(riskLevel) == riskLevel \in {"HIGH", "CRISIS"}

\* RESOURCES: the names of the services of each group
RESOURCES ==
    [ CRISIS |-> << "988 Suicide & Crisis Lifeline", "Crisis Text Line",
                    "RAINN Sexual Assault Hotline" >>,
      PROFESSIONAL |-> << "SAMHSA Treatment Locator",
                          "Psychology Today Therapist Finder" >>,
      SELF_HELP |-> << "Mindfulness Exercises", "Mental Health Apps" >> ]

\* getRecommendedResources(riskLevel, concerns): the Set keeps insertion
\* order and the three groups share no service
getRecommendedResourcesByRisk(riskLevel, concerns) ==
    RESOURCES.SELF_HELP
    \o (IF riskLevel \in {"HIGH", "CRISIS"}
        THEN RESOURCES.CRISIS \o RESOURCES.PROFESSIONAL ELSE <<>>)

getRecommendedResources(riskLevel, concerns) ==
    RESOURCES.SELF_HELP
    \o (IF riskLevel \in {"HIGH", "CRISIS"} THEN RESOURCES.CRISIS ELSE <<>>)
    \o (IF concerns # <<>> THEN RESOURCES.PROFESSIONAL ELSE <<>>)

\* assessment.riskLevel !== 'CRISIS' after the crisis check (151)
performsAnalysisAlways(detected) == TRUE

performsAnalysis(detected) == ~detected

\* the assessment assessContent builds (114-179), without its timestamps;
\* analysisResults is << >> for null
Assessment(content, sessionId) ==
    LET crisisCheck == checkCrisisIndicators(content)
        analysis == InterventionManager_analyzeContent(content)
        analysed == performsAnalysis(crisisCheck.detected)
        riskLevel == IF analysed THEN determineRiskLevel(analysis.severity)
                     ELSE "CRISIS"
        triggers == (IF crisisCheck.detected THEN crisisCheck.triggers ELSE <<>>)
                    \o (IF analysed THEN analysis.triggers ELSE <<>>)
        concerns == IF analysed THEN analysis.concerns ELSE <<>>
    IN  [ content |-> content,
          riskLevel |-> riskLevel,
          triggers |-> triggers,
          concerns |-> concerns,
          requiresIntervention |->
              IF analysed THEN requiresAction(riskLevel) ELSE TRUE,
          recommendedResources |-> getRecommendedResources(riskLevel, concerns),
          sessionId |-> sessionId,
          crisisCheckResults |-> crisisCheck.debugInfo,
          analysisResults |-> IF analysed THEN <<analysis>> ELSE <<>> ]

\* context.sessionId: none, or an id of the caller
NoSessionId == ""

Contexts == {NoSessionId, "s1"}

\* null passed as context
NullContext == "null"

\* the content argument: a text, given by its phrases, or a value that is
\* no string (undefined, a number)
Text(phrases) == [type |-> "string", phrases |-> phrases]

NonTexts == { [type |-> "undefined", phrases |-> {}],
              [type |-> "number", phrases |-> {}] }

\* the ids generateSessionId can return
generateSessionId == {"g1"}

\* the promise of assessContent is rejected with an error thrown before
\* updateSessionState (186) was reached
rejectsForgetting(error) ==
    /\ assessOutcome' = error
    /\ lastAssessment' = << >>
    /\ UNCHANGED <<interventionHistory, activeSessions, debugMode>>
    /\ UNCHANGED <<appVars, svcVars, reqVars, caVars, ccVars, queueVars, initVars>>

rejects(error) ==
    /\ assessOutcome' = error
    /\ UNCHANGED <<interventionHistory, activeSessions, lastAssessment,
                   debugMode>>
    /\ UNCHANGED <<appVars, svcVars, reqVars, caVars, ccVars, queueVars, initVars>>

\* assessContent(content, context), with updateSessionState.  content.slice
\* of the debug output (106) is called before the try block; inside it
\* context.sessionId throws for a null context and the catch block throws
\* the generic error.  With debug mode off a content that is no string is
\* only given to RegExp.test, which converts it to a string ("undefined",
\* "123") that no pattern matches: it is assessed as a text without phrases.
assessContent(content, context) ==
    IF debugMode /\ content.type # "string"
    THEN rejects("TypeError")
    ELSE IF context = NullContext
    THEN rejects("Content assessment failed")
    ELSE
    \E sessionId \in IF context # NoSessionId THEN {context} ELSE generateSessionId :
        LET assessment == Assessment(content.phrases, sessionId) IN
        /\ assessOutcome' = "returned"
        /\ UNCHANGED debugMode
        /\ activeSessions' = activeSessions \cup {sessionId}
        /\ interventionHistory' =
              IF sessionId \in DOMAIN interventionHistory
              THEN [interventionHistory EXCEPT ![sessionId] = Append(@, assessment)]
              ELSE [s \in DOMAIN interventionHistory \cup {sessionId} |->
                      IF s = sessionId THEN <<assessment>>
                      ELSE interventionHistory[s]]
        /\ lastAssessment' = <<assessment>>
        /\ UNCHANGED <<appVars, svcVars, reqVars, caVars, ccVars, queueVars, initVars>>

\* clearSession(sessionId)
clearSessionAll(sessionId) ==
    /\ activeSessions' = {}
    /\ interventionHistory' = << >>
    /\ UNCHANGED <<lastAssessment, debugMode, assessOutcome>>
    /\ UNCHANGED <<appVars, svcVars, reqVars, caVars, ccVars, queueVars, initVars>>

clearSessionHistoryOnly(sessionId) ==
    /\ UNCHANGED activeSessions
    /\ interventionHistory' =
          [s \in DOMAIN interventionHistory \ {sessionId} |-> interventionHistory[s]]
    /\ UNCHANGED <<lastAssessment, debugMode, assessOutcome>>
    /\ UNCHANGED <<appVars, svcVars, reqVars, caVars, ccVars, queueVars, initVars>>

clearSession(sessionId) ==
    /\ activeSessions' = activeSessions \ {sessionId}
    /\ interventionHistory' =
          [s \in DOMAIN interventionHistory \ {sessionId} |-> interventionHistory[s]]
    /\ UNCHANGED <<lastAssessment, debugMode, assessOutcome>>
    /\ UNCHANGED <<appVars, svcVars, reqVars, caVars, ccVars, queueVars, initVars>>

\* getSessionHistory(sessionId)
getSessionHistory(sessionId) ==
    IF sessionId \in DOMAIN interventionHistory
    THEN interventionHistory[sessionId] ELSE << >>

\* setDebugMode(enabled)
setDebugMode(enabled) ==
    /\ debugMode' = enabled
    /\ UNCHANGED <<interventionHistory, activeSessions, lastAssessment,
                   assessOutcome>>
    /\ UNCHANGED <<appVars, svcVars, reqVars, caVars, ccVars, queueVars, initVars>>

\* the first assessment of a manager, of any content, and the clearing of
\* sessions
NextRisk ==
    \/ \E content \in Contents, context \in Contexts :
          lastAssessment = << >> /\ assessContent(Text(content), context)
    \/ \E sessionId \in (Contexts \ {NoSessionId}) \cup generateSessionId :
          clearSession(sessionId)

\* a page on which Socket.IO was loaded before APIService was constructed
InitRisk == Init /\ ioAvailable

SpecRisk == InitRisk /\ [][NextRisk]_vars

\* the contents and contexts of the calls of a session
SessionContents == { Text({}), Text({"I want to kill myself"}) } \cup NonTexts

\* any calls of assessContent, clearSession and setDebugMode, while the
\* session of the call holds fewer than MaxAssessments assessments
NextSession ==
    \/ \E content \in SessionContents, context \in Contexts \cup {NullContext} :
          /\ \A s \in (IF context \in {NoSessionId, NullContext}
                       THEN generateSessionId ELSE {context}) :
                Len(getSessionHistory(s)) < MaxAssessments
          /\ assessContent(content, context)
    \/ \E sessionId \in (Contexts \ {NoSessionId}) \cup generateSessionId :
          clearSession(sessionId)
    \/ \E enabled \in BOOLEAN : setDebugMode(enabled)

SpecSession == InitRisk /\ [][NextSession]_vars


\* ------------------------------------------------------- ContentClassifier
\* (src/unnamed/part_000)

\* A text is a sequence of blocks of BlockLen characters, each a phrase
\* padded with blanks, so that text.slice(0, 100) is its first two blocks.
BlockLen == 50

Blocks == { "Please help, I need help: advice or guidance?     ",
            "I FEEL my boss blames me, it is unfair and wrong!!" }

Texts == UNION { [1..n -> Blocks] : n \in 0..MaxBlocks }

\* the options argument: {}, {detailed: true}, {detailed: undefined}
Options == { << >>, [detailed |-> "true"], [detailed |-> "undefined"] }

\* JSON.stringify(options): a property whose value is undefined is left out
JSON_stringify(options) ==
    [ p \in { q \in DOMAIN options : options[q] # "undefined" } |-> options[p] ]

\* text.slice(start, end), for positions at the edges of blocks
slice(text, start, end) ==
    SubSeq(text, (start \div BlockLen) + 1,
           IF end \div BlockLen < Len(text) THEN end \div BlockLen ELSE Len(text))

\* getCacheKey(text, options)
getCacheKeyWholeText(text, options) == <<text, JSON_stringify(options)>>

getCacheKey(text, options) == <<slice(text, 0, 100), JSON_stringify(options)>>

\* The scores are JavaScript numbers; the model computes them as exact
\* fractions num/den in lowest terms.
RECURSIVE GCD(_, _)
GCD(a, b) == IF b = 0 THEN a ELSE GCD(b, a % b)

Fraction(n, d) ==
    LET g == GCD(n, d) IN [num |-> n \div g, den |-> d \div g]

Times(a, b) == Fraction(a.num * b.num, a.den * b.den)

Plus(a, b) == Fraction(a.num * b.den + b.num * a.den, a.den * b.den)

LessThan(a, b) == a.num * b.den < b.num * a.den

\* Math.min(a, b)
Math_min(a, b) == IF LessThan(b, a) THEN b ELSE a

\* static CATEGORIES, in the order of Object.entries
CATEGORIES == <<
    [ name |-> "PERSONAL",
      descriptors |-> { "I feel", "I think", "my experience", "happened to me",
                        "in my life", "personally", "my situation" },
      contextMarkers |-> { "my", "me", "mine", "myself", "I am", "I'm",
                           "I was", "I've" } ],
    [ name |-> "RELATIONSHIP",
      descriptors |-> { "dating", "marriage", "partner", "boyfriend",
                        "girlfriend", "spouse", "relationship", "breakup",
                        "divorce" },
      contextMarkers |-> { "love", "trust", "commitment", "together", "apart",
                           "dating" } ],
    [ name |-> "ETHICAL",
      descriptors |-> { "right thing", "wrong thing", "moral", "ethics",
                        "dilemma", "should I", "conscience", "guilt", "regret" },
      contextMarkers |-> { "right", "wrong", "fair", "unfair", "justice",
                           "ethical" } ],
    [ name |-> "PROFESSIONAL",
      descriptors |-> { "at work", "job", "career", "workplace", "boss",
                        "coworker", "office", "professional" },
      contextMarkers |-> { "work", "business", "company", "employee",
                           "manager", "team" } ],
    [ name |-> "MENTAL_HEALTH",
      descriptors |-> { "anxiety", "depression", "stress", "therapy",
                        "mental health", "counseling", "psychiatrist",
                        "psychologist" },
      contextMarkers |-> { "feel", "cope", "struggle", "overwhelmed",
                           "worried", "scared" } ],
    [ name |-> "CONFLICT",
      descriptors |-> { "argument", "fight", "disagreement", "conflict",
                        "dispute", "tension", "resolution", "compromise" },
      contextMarkers |-> { "angry", "upset", "frustrated", "resolve", "solve",
                           "deal with" } ] >>

\* static TOPIC_INDICATORS
TOPIC_INDICATORS == <<
    [ name |-> "SUPPORT_SEEKING",
      keywords |-> { "help", "advice", "guidance", "what should", "need help",
                     "please help", "suggestions" },
      weight |-> Fraction(15, 10) ],
    [ name |-> "VENTING",
      keywords |-> { "rant", "frustrated", "annoyed", "tired of", "sick of",
                     "had enough", "cant take" },
      weight |-> Fraction(12, 10) ],
    [ name |-> "DECISION_MAKING",
      keywords |-> { "decide", "choice", "option", "should I", "what if",
                     "wondering", "considering" },
      weight |-> Fraction(13, 10) ],
    [ name |-> "REFLECTION",
      keywords |-> { "thinking about", "realized", "understand", "perspective",
                     "looking back", "reflection" },
      weight |-> Fraction(11, 10) ] >>

\* static STYLE_FEATURES: the weights; the patterns are in matchLength
STYLE_FEATURES == <<
    [ name |-> "FORMAL",     weight |-> Fraction(8, 10) ],
    [ name |-> "CASUAL",     weight |-> Fraction(12, 10) ],
    [ name |-> "EMOTIONAL",  weight |-> Fraction(14, 10) ],
    [ name |-> "ANALYTICAL", weight |-> Fraction(9, 10) ] >>

\* the strings s of the tables with normalizeText(block).includes(
\* s.toLowerCase()); no string is included across two blocks
included(block) ==
    IF block = "Please help, I need help: advice or guidance?     "
    THEN { "help", "need help", "please help", "advice", "guidance" }
    ELSE { "I feel", "my", "me", "wrong", "fair", "unfair", "boss", "feel" }

\* normalizedText.includes(s.toLowerCase())
includes(text, s) == \E i \in DOMAIN text : s \in included(text[i])

\* the sum over the patterns of a style of
\* (normalizeText(block).match(pattern) || []).length: only /!!+/g matches,
\* once, in the second block; no pattern matches across two blocks
matchLength(block, styleName) ==
    IF /\ block = "I FEEL my boss blames me, it is unfair and wrong!!"
       /\ styleName = "EMOTIONAL"
    THEN 1 ELSE 0

\* tokenize(normalizeText(block)).length and
\* splitSentences(normalizeText(block)).length
wordCount(block) ==
    IF block = "Please help, I need help: advice or guidance?     " THEN 8 ELSE 11

\* detectCategories(text)
detectCategories(text) ==
    [ i \in DOMAIN CATEGORIES |->
        LET config == CATEGORIES[i]
            descriptorMatches == { d \in config.descriptors : includes(text, d) }
            contextMatches == { m \in config.contextMarkers : includes(text, m) }
        IN  [ name  |-> config.name,
              score |-> Plus(Times(Fraction(Cardinality(descriptorMatches),
                                            Cardinality(config.descriptors)),
                                   Fraction(6, 10)),
                             Times(Fraction(Cardinality(contextMatches),
                                            Cardinality(config.contextMarkers)),
                                   Fraction(4, 10))) ] ]

\* analyzeTopics(text)
analyzeTopics(text) ==
    [ i \in DOMAIN TOPIC_INDICATORS |->
        LET config == TOPIC_INDICATORS[i]
            matches == { k \in config.keywords : includes(text, k) }
        IN  [ name  |-> config.name,
              score |-> Times(Fraction(Cardinality(matches),
                                       Cardinality(config.keywords)),
                              config.weight),
              matches |-> matches ] ]

\* analyzeStyle(text)
analyzeStyle(text) ==
    [ i \in DOMAIN STYLE_FEATURES |->
        LET config == STYLE_FEATURES[i]
            count[n \in 0..Len(text)] ==
                IF n = 0 THEN 0
                ELSE count[n - 1] + matchLength(text[n], config.name)
            matches == count[Len(text)]
            score == Times(Fraction(matches, 1), config.weight)
        IN  [ name  |-> config.name,
              score |-> Math_min(Times(score, Fraction(1, 10)), Fraction(1, 1)),
              matches |-> matches ] ]

\* calculateMetrics(words, sentences): the counts (each block is one
\* sentence); the two averages are quotients of these
calculateMetrics(text) ==
    LET count[n \in 0..Len(text)] ==
            IF n = 0 THEN 0 ELSE count[n - 1] + wordCount(text[n])
    IN  [ wordCount |-> count[Len(text)], sentenceCount |-> Len(text) ]

\* getRelevantTopics(category), getRelevantStyles(category)
getRelevantTopics(category) ==
    CASE category = "PERSONAL"      -> <<"SUPPORT_SEEKING", "VENTING", "REFLECTION">>
      [] category = "RELATIONSHIP"  -> <<"DECISION_MAKING", "VENTING", "REFLECTION">>
      [] category = "ETHICAL"       -> <<"DECISION_MAKING", "REFLECTION">>
      [] category = "PROFESSIONAL"  -> <<"DECISION_MAKING", "SUPPORT_SEEKING">>
      [] category = "MENTAL_HEALTH" -> <<"SUPPORT_SEEKING", "VENTING", "REFLECTION">>
      [] category = "CONFLICT"      -> <<"SUPPORT_SEEKING", "VENTING", "DECISION_MAKING">>
      [] OTHER -> << >>

getRelevantStyles(category) ==
    CASE category = "PERSONAL"      -> <<"CASUAL", "EMOTIONAL">>
      [] category = "RELATIONSHIP"  -> <<"EMOTIONAL", "CASUAL">>
      [] category = "ETHICAL"       -> <<"FORMAL", "ANALYTICAL">>
      [] category = "PROFESSIONAL"  -> <<"FORMAL", "ANALYTICAL">>
      [] category = "MENTAL_HEALTH" -> <<"EMOTIONAL", "REFLECTION">>
      [] category = "CONFLICT"      -> <<"EMOTIONAL", "CASUAL">>
      [] OTHER -> << >>

\* relevant.forEach(n => { if (table[n]) score *= (1 + table[n].score * by) })
RECURSIVE adjust(_, _, _, _)
adjust(score, relevant, table, by) ==
    IF relevant = << >> THEN score
    ELSE LET found == { i \in DOMAIN table : table[i].name = Head(relevant) }
             next == IF found = {} THEN score
                     ELSE Times(score,
                                Plus(Fraction(1, 1),
                                     Times(table[CHOOSE i \in found : TRUE].score, by)))
         IN  adjust(next, Tail(relevant), table, by)

\* calculateConfidence(categories, topics, style, metrics): by category name
calculateConfidence(categories, topics, style) ==
    [ i \in DOMAIN categories |->
        LET category == categories[i].name
            byTopics == adjust(categories[i].score, getRelevantTopics(category),
                               topics, Fraction(2, 10))
            byStyles == adjust(byTopics, getRelevantStyles(category),
                               style, Fraction(1, 10))
        IN  Math_min(byStyles, Fraction(1, 1)) ]

\* Object.entries(categories).sort((a, b) => b[1].score - a[1].score): the
\* indices of the categories; Array.prototype.sort is stable
sortedAscending(categories) ==
    LET before(i, j) == \/ LessThan(categories[i].score, categories[j].score)
                        \/ /\ categories[i].score = categories[j].score
                           /\ i < j
    IN  [ r \in DOMAIN categories |->
            CHOOSE i \in DOMAIN categories :
                Cardinality({ j \in DOMAIN categories : before(j, i) }) = r - 1 ]

sortedCategories(categories) ==
    LET before(i, j) == \/ LessThan(categories[j].score, categories[i].score)
                        \/ /\ categories[i].score = categories[j].score
                           /\ i < j
    IN  [ r \in DOMAIN categories |->
            CHOOSE i \in DOMAIN categories :
                Cardinality({ j \in DOMAIN categories : before(j, i) }) = r - 1 ]

\* classifyContent(text, options) up to its await: a key found in the cache
\* returns the cached result; otherwise the four analyses run and the call
\* waits for Promise.all
classifyContent(text, options) ==
    LET cacheKey == getCacheKey(text, options) IN
    /\ ccIssued' = ccIssued \cup {cacheKey}
    /\ IF cacheKey \in DOMAIN cache
       THEN /\ ccReturned' = <<[text |-> text, result |-> cache[cacheKey]]>>
            /\ UNCHANGED <<cache, ccPending, now>>
       ELSE /\ ccPending' = Append(ccPending,
                                   [ text       |-> text,
                                     cacheKey   |-> cacheKey,
                                     categories |-> detectCategories(text),
                                     topics     |-> analyzeTopics(text),
                                     style      |-> analyzeStyle(text),
                                     metrics    |-> calculateMetrics(text) ])
            /\ UNCHANGED <<cache, ccReturned, now>>
    /\ UNCHANGED <<appVars, svcVars, reqVars, caVars, imVars, queueVars, initVars>>

\* classifyContent after its await: the calls continue in the order they
\* were made; Date.now() returns a time not before the one last read
classifyContentResume(time) ==
    /\ ccPending # << >>
    /\ time >= now
    /\ now' = time
    /\ LET call == Head(ccPending)
           confidenceScores == calculateConfidence(call.categories, call.topics,
                                                   call.style)
           sorted == sortedCategories(call.categories)
           entry(r) == [ category   |-> call.categories[sorted[r]].name,
                         confidence |-> confidenceScores[sorted[r]] ]
           results == [ primary   |-> entry(1),
                        secondary |-> <<entry(2), entry(3)>>,
                        topics    |-> call.topics,
                        style     |-> call.style,
                        metrics   |-> call.metrics,
                        timestamp |-> time ]
       IN  /\ cache' = [ k \in DOMAIN cache \cup {call.cacheKey} |->
                           IF k = call.cacheKey THEN results ELSE cache[k] ]
           /\ ccReturned' = <<[text |-> call.text, result |-> results]>>
    /\ ccPending' = Tail(ccPending)
    /\ UNCHANGED ccIssued
    /\ UNCHANGED <<appVars, svcVars, reqVars, caVars, imVars, queueVars, initVars>>

\* clearCache()
clearCache ==
    /\ cache' = << >>
    /\ ccIssued' = {}
    /\ UNCHANGED <<ccPending, ccReturned, now>>
    /\ UNCHANGED <<appVars, svcVars, reqVars, caVars, imVars, queueVars, initVars>>

\* the texts of the calls that share the cache: they are not empty, start
\* with the two blocks in one order and have at most one block after the
\* 100 characters of the key
CachedTexts ==
    { text \in Texts :
        /\ text # << >>
        /\ Len(text) * BlockLen <= 100 + BlockLen
        /\ \A i \in DOMAIN text :
            i <= 2 => text[i] = (IF i = 1 THEN "I FEEL my boss blames me, it is unfair and wrong!!"
                                 ELSE "Please help, I need help: advice or guidance?     ") }

NextClassifier ==
    \/ \E text \in CachedTexts, options \in Options :
          /\ \/ getCacheKey(text, options) \in DOMAIN cache
             \/ Cardinality(DOMAIN cache) + Len(ccPending) < MaxCached
          /\ classifyContent(text, options)
    \/ \E time \in 0..MaxClock : classifyContentResume(time)
    \/ clearCache

SpecClassifier == InitRisk /\ [][NextClassifier]_vars

\* one call at a time, of any text, with an empty cache
NextScores ==
    \/ \E text \in Texts :
          /\ cache = << >>
          /\ ccPending = << >>
          /\ classifyContent(text, << >>)
    \/ \E time \in 0..MaxClock : classifyContentResume(time)
    \/ clearCache

SpecScores == InitRisk /\ [][NextScores]_vars

\* --------------------------------------------- APIService: the request queue

\* request.resolve(response), request.reject(error): the first call settles
\* the promise of queueRequest, a later call has no effect
settle(settled, id, state, status) ==
    [ settled EXCEPT ![id] =
        [ state       |-> IF @.state = "pending" THEN state ELSE @.state,
          status      |-> IF @.state = "pending" THEN status ELSE @.status,
          fetches     |-> @.fetches,
          settlements |-> @.settlements + 1 ] ]

\* while (this.requestQueue.length > 0) { request = this.requestQueue.shift();
\* await this.makeRequest(...): the loop of processQueue up to its next await
processQueueLoopPop(queue) ==
    IF queue # << >>
    THEN /\ requestQueue' = SubSeq(queue, 1, Len(queue) - 1)
         /\ processing' = queue[Len(queue)]
         /\ isProcessingQueue' = TRUE
         /\ queuePc' = "makeRequest"
    ELSE /\ requestQueue' = queue
         /\ processing' = 0
         /\ isProcessingQueue' = FALSE
         /\ queuePc' = "idle"

processQueueLoop(queue) ==
    IF queue # << >>
    THEN /\ requestQueue' = Tail(queue)
         /\ processing' = Head(queue)
         /\ isProcessingQueue' = TRUE
         /\ queuePc' = "makeRequest"
    ELSE /\ requestQueue' = queue
         /\ processing' = 0
         /\ isProcessingQueue' = FALSE
         /\ queuePc' = "idle"

\* request(method, endpoint, data, {queued: true}): queueRequest pushes the
\* request and calls processQueue, which returns at once when the queue is
\* being processed
queueRequest ==
    LET id == Len(promises) + 1 IN
    /\ promises' = Append(promises, [ state |-> "pending", status |-> 0,
                                      fetches |-> 0, settlements |-> 0 ])
    /\ IF isProcessingQueue
       THEN /\ requestQueue' = Append(requestQueue, id)
            /\ UNCHANGED <<isProcessingQueue, queuePc, processing>>
       ELSE processQueueLoop(Append(requestQueue, id))
    /\ UNCHANGED <<appVars, svcVars, reqVars, caVars, imVars, ccVars, initVars>>

\* the makeRequest of processQueue settles, its fetch having settled as f:
\* the request is resolved with the response or rejected with the error, and
\* processQueue sleeps 100 ms
processQueueSettles(f) ==
    LET status == settledStatus(f)
        counted == [ promises EXCEPT ![processing].fetches = @ + 1 ]
    IN
    /\ queuePc = "makeRequest"
    /\ promises' = settle(counted, processing,
                          IF status = 200 THEN "resolved" ELSE "rejected", status)
    /\ queuePc' = "sleep"
    /\ processing' = 0
    /\ UNCHANGED <<requestQueue, isProcessingQueue>>
    /\ UNCHANGED <<appVars, svcVars, reqVars, caVars, imVars, ccVars, initVars>>

\* await this.sleep(100) ends: the loop goes on, or processQueue ends
processQueueWakes ==
    /\ queuePc = "sleep"
    /\ processQueueLoop(requestQueue)
    /\ UNCHANGED promises
    /\ UNCHANGED <<appVars, svcVars, reqVars, caVars, imVars, ccVars, initVars>>

\* cancelAllRequests(): every request in the queue is rejected with
\* APIError('Request cancelled', 499)
RECURSIVE rejectAll(_, _)
rejectAll(queue, settled) ==
    IF queue = << >> THEN settled
    ELSE rejectAll(Tail(queue), settle(settled, Head(queue), "rejected", 499))

cancelAllRequestsKeepsQueue ==
    /\ promises' = rejectAll(requestQueue, promises)
    /\ UNCHANGED <<requestQueue, isProcessingQueue, queuePc, processing>>
    /\ UNCHANGED <<appVars, svcVars, reqVars, caVars, imVars, ccVars, initVars>>

cancelAllRequests ==
    /\ promises' = rejectAll(requestQueue, promises)
    /\ requestQueue' = << >>
    /\ UNCHANGED <<isProcessingQueue, queuePc, processing>>
    /\ UNCHANGED <<appVars, svcVars, reqVars, caVars, imVars, ccVars, initVars>>

NextQueue ==
    \/ /\ Len(promises) < MaxQueued
       /\ queueRequest
    \/ \E f \in FetchOutcomes : processQueueSettles(f)
    \/ processQueueWakes
    \/ cancelAllRequests

SpecQueue == InitRisk /\ [][NextQueue]_vars

\* the fetch of makeRequest settles, by its abort timer (1140) at the latest,
\* and the timer of sleep(100) fires
SpecQueueFair ==
    /\ InitRisk
    /\ [][NextQueue]_vars
    /\ WF_vars(\E f \in FetchOutcomes : processQueueSettles(f))
    /\ WF_vars(processQueueWakes)

\* -------------------------------------------- AppContainer: initialization

\* the bodies GET /api/config is answered with: null, or an object whose
\* api_key is missing, a number or a string
Configs ==
    {[kind |-> "null"]} \cup { [kind |-> "config", api_key |-> v] : v \in JsValues }

\* sanitizeApiKey(apiKey): apiKey ? apiKey.trim() : ''
sanitizeApiKey(apiKey) == IF Truthy(apiKey) THEN trim(apiKey.chars) ELSE <<>>

\* checkApiKey after its await: the try block ends with
\* setHasApiKey(apiService.hasApiKey) when the race was fulfilled, the catch
\* block with setHasApiKey(false) when it was rejected, and finally runs in
\* both; a promise that settles after the race is over changes nothing
checkApiKeyResumesWithoutFinally(fulfilled) ==
    IF initPc = "race"
    THEN /\ hasApiKey' = IF fulfilled THEN apiService'.hasApiKey ELSE FALSE
         /\ isInitializing' = IF fulfilled THEN FALSE ELSE isInitializing
         /\ initPc' = "done"
    ELSE UNCHANGED <<hasApiKey, isInitializing, initPc>>

checkApiKeyResumes(fulfilled) ==
    IF initPc = "race"
    THEN /\ hasApiKey' = IF fulfilled THEN apiService'.hasApiKey ELSE FALSE
         /\ isInitializing' = FALSE
         /\ initPc' = "done"
    ELSE UNCHANGED <<hasApiKey, isInitializing, initPc>>

\* the mount effect (43-70): checkApiKey makes the timer, calls
\* getApiConfig(true), which calls this.request('GET', '/api/config'), and
\* waits for the race
checkApiKey ==
    /\ initPc = "mount"
    /\ initPc' = "race"
    /\ initTimer' = TRUE
    /\ requestStarts(0, 0)
    /\ UNCHANGED <<hasApiKey, isInitializing, apiService, apiConfig>>
    /\ UNCHANGED <<appVars, svcVars, caVars, imVars, ccVars, queueVars>>

\* getApiConfig after this.request returned c (999-1016): a truthy api_key
\* is sanitized and kept, and one that has no trim method throws into the
\* catch block; hasApiKey is computed from the key the service holds
getApiConfigReturns(c) ==
  LET \* config && config.api_key
      hasKeyField == c.kind = "config" /\ Truthy(c.api_key)
      throws == hasKeyField /\ c.api_key.type # "string"
      key == IF hasKeyField /\ ~throws THEN sanitizeApiKey(c.api_key)
             ELSE apiService.apiKey
  IN
    /\ initPc # "mount"
    /\ reqPc = "returned"
    /\ reqPc' = "idle"
    /\ apiConfig' = c
    /\ apiService' = [apiKey |-> key,
                      hasApiKey |-> ~throws /\ key # <<>> /\ trim(key) # <<>>]
    /\ checkApiKeyResumes(~throws)
    /\ UNCHANGED initTimer
    /\ UNCHANGED <<reqOptions, reqMax, attempt, calls, fetched, outcomes, sleeps,
                   reqResult, reqData>>
    /\ UNCHANGED <<appVars, svcVars, caVars, imVars, ccVars, queueVars>>

\* getApiConfig after this.request threw (1017-1021)
getApiConfigThrows ==
    /\ initPc # "mount"
    /\ reqPc = "thrown"
    /\ reqPc' = "idle"
    /\ apiService' = [apiService EXCEPT !.hasApiKey = FALSE]
    /\ checkApiKeyResumes(FALSE)
    /\ UNCHANGED <<initTimer, apiConfig>>
    /\ UNCHANGED <<reqOptions, reqMax, attempt, calls, fetched, outcomes, sleeps,
                   reqResult, reqData>>
    /\ UNCHANGED <<appVars, svcVars, caVars, imVars, ccVars, queueVars>>

\* the timer of line 49 fires and rejects timeoutPromise
initializationTimeout ==
    /\ initTimer
    /\ initTimer' = FALSE
    /\ checkApiKeyResumes(FALSE)
    /\ UNCHANGED <<apiService, apiConfig>>
    /\ UNCHANGED <<appVars, svcVars, reqVars, caVars, imVars, ccVars, queueVars>>

NextInitialization ==
    \/ checkApiKey
    \/ \E f \in FetchOutcomes : makeRequest(f)
    \/ sleep
    \/ \E c \in Configs : getApiConfigReturns(c)
    \/ getApiConfigThrows
    \/ initializationTimeout

\* React runs the mount effect and the browser fires the timer; the backend
\* owes no answer
SpecInitialization ==
    /\ Init
    /\ [][NextInitialization]_vars
    /\ WF_vars(checkApiKey)
    /\ WF_vars(initializationTimeout)

\* ------------------------------------------------------------------ claims

Sessions == 1..(MaxSubmissions + 1)

\* C1: when the 150 s timer of the running analysis fires (the latest
\* submission, still analysing, no result stored, so that no completion or
\* error event has ended it), it stores the timeout error and sets
\* isAnalyzing to false.
C1_TimeoutTerminates ==
    [][\A i \in 1..MaxSubmissions :
        ( /\ i <= Len(timers)
          /\ timers[i] = "armed"
          /\ timers'[i] = "fired"
          /\ i = Len(subs)
          /\ isAnalyzing
          /\ analysisResults = Null )
        => (analysisResults' = TimeoutError /\ isAnalyzing' = FALSE)]_vars

\* C2: a submission that has reached a terminal outcome (a synchronous
\* response or a failure to start; a completion or error event of its
\* session stored as the result) has no armed timer left.
C2_TimerCancelledOnTerminal ==
    \A i \in 1..Len(subs) :
        ( \/ subs[i].state = "final"
          \/ /\ subs[i].state = "session"
             /\ analysisResults \in { [kind |-> "complete", of |-> i],
                                      [kind |-> "wsError", of |-> i] } )
        => timers[i] # "armed"

\* C3: once every submitted analysis has terminated (by a synchronous
\* response or failure to start, or by its client-side timeout firing),
\* progressCallbacks and analysisCallbacks are empty.
C3_CallbacksRemoved ==
    (\A i \in 1..Len(subs) :
        \/ subs[i].state = "final"
        \/ subs[i].state = "session" /\ timers[i] = "fired")
    => (progressCallbacks = {} /\ analysisCallbacks = {})

\* C4: an analysis_complete or analysis_error event whose session id differs
\* from currentSessionId changes none of analysisResults, isAnalyzing,
\* progress, statusMessage, analysisTimeoutId and the timers.
C4_OtherSessionIgnored ==
    [][\A s \in Sessions :
        ((AnalysisComplete(s) \/ AnalysisError(s)) /\ s # currentSessionId)
        => UNCHANGED <<analysisResults, isAnalyzing, progress, statusMessage,
                       analysisTimeoutId, timers>>]_vars

\* C5: once the tracked analysis has a terminal result (completion, error
\* or timeout), a later analysis_complete or analysis_error event for
\* currentSessionId changes none of analysisResults, isAnalyzing, progress
\* and statusMessage.
C5_TerminalIsFinal ==
    [][\A s \in Sessions :
        ( /\ AnalysisComplete(s) \/ AnalysisError(s)
          /\ s = currentSessionId
          /\ ~isAnalyzing
          /\ analysisResults.kind \in {"complete", "wsError", "timeout"} )
        => UNCHANGED <<analysisResults, isAnalyzing, progress, statusMessage>>]_vars

\* C6: an analysis_progress event changes progress and statusMessage only:
\* isAnalyzing, analysisResults, currentSessionId, analysisTimeoutId and the
\* timers are left as they were.
C6_ProgressNeverTerminates ==
    [][\A s \in Sessions, d \in ProgressInputs :
        AnalysisProgress(s, d)
        => UNCHANGED <<isAnalyzing, analysisResults, currentSessionId,
                       analysisTimeoutId, timers>>]_vars

\* C6 witness: a progress event has updated a running analysis
C6_Witness ==
    /\ isAnalyzing
    /\ progress = 50
    /\ statusMessage = "Working"
    /\ analysisTimeoutId # 0
    /\ timers[analysisTimeoutId] = "armed"

\* C7: an analysis_progress event whose session id is not currentSessionId
\* changes neither progress nor statusMessage.
C7_ProgressOnlyForCurrent ==
    [][\A s \in Sessions, d \in ProgressInputs :
        (AnalysisProgress(s, d) /\ s # currentSessionId)
        => UNCHANGED <<progress, statusMessage>>]_vars

\* C8: a response with a session id leaves the analysis in progress
\* (isAnalyzing, no result) with currentSessionId set to that id; a response
\* without one becomes analysisResults, ends the analysis and leaves no
\* session tracked.
C8_ResponseBranches ==
    [][\A i \in 1..MaxSubmissions, k \in ResponseKinds :
        HttpResponse(i, k)
        => IF HasSession(k)
           THEN isAnalyzing' /\ analysisResults' = Null /\ currentSessionId' = i
           ELSE /\ analysisResults' = [kind |-> k, of |-> i]
                /\ ~isAnalyzing'
                /\ currentSessionId' = 0]_vars

\* C9: currentSessionId is null or the session id returned for the most
\* recently submitted analysis.
C9_LatestSessionTracked ==
    currentSessionId \in {0, Len(subs)}

\* C10: a call of request makes at most retryAttempts (or
\* options.retryAttempts) calls of makeRequest and always ends: it returns the
\* first successful response, rethrows a non-retryable error at once, and
\* rethrows the last error after the last allowed retryable failure.
C10_Limit == IF reqOptions.retryAttempts # 0 THEN reqOptions.retryAttempts ELSE retryAttempts

\* a non-retryable failure: a 4xx status other than 408 and 429
C10_NonRetryable(status) == status >= 400 /\ status < 500 /\ status \notin {408, 429}

C10_Safety ==
    /\ calls <= C10_Limit
    /\ calls = Len(outcomes)
    /\ \A k \in 1..(Len(outcomes) - 1) :
          outcomes[k] # 200 /\ ~C10_NonRetryable(outcomes[k])
    /\ Len(outcomes) > 0 =>
          LET last == outcomes[Len(outcomes)] IN
            /\ last = 200
                 => reqPc = "returned" /\ reqResult = [type |-> "response", status |-> 200]
            /\ (last # 200 /\ (C10_NonRetryable(last) \/ calls = C10_Limit))
                 => reqPc = "thrown" /\ reqResult = [type |-> "error", status |-> last]
            /\ (last # 200 /\ ~C10_NonRetryable(last) /\ calls < C10_Limit)
                 => reqPc \in {"sleep", "call"}

C11_Statuses == StatusCodes \cup {NullStatus, 401, 403, 407, 409, 428, 430, 499, 502, 504}

C11_Retryable(status) ==
    \/ status >= 500
    \/ status \in {0, NullStatus}
    \/ status \in {408, 429}

C11_RetryableStatuses ==
    /\ \A status \in C11_Statuses : isRetryable(status) <=> C11_Retryable(status)
    /\ \A status \in C11_Statuses :
          (status >= 400 /\ status < 500 /\ status \notin {408, 429})
              => ~isRetryable(status)
    /\ \A k \in 1..Len(fetched) :
          fetched[k] = "abort" =>
            /\ outcomes[k] = 408
            /\ k < C10_Limit =>
                  \/ Len(fetched) > k
                  \/ Len(fetched) = k /\ reqPc \in {"sleep", "call"}
                                      /\ Len(sleeps) = k

\* C11 witness: the first fetch timed out and a second attempt was made
C11_Witness ==
    /\ Len(fetched) = 2
    /\ fetched[1] = "abort"
    /\ outcomes[1] = 408
    /\ Len(sleeps) >= 1

\* C12: the wait after the k-th failed attempt of request is the retry delay
\* (options.retryDelay, else 1000) times 2^(k-1): the first wait is the retry
\* delay, each later wait is double the one before (1000 then 2000 with the
\* defaults), a wait follows every failed attempt but the one that ends the
\* request, and none follows that one.
C12_Base == IF reqOptions.retryDelay # 0 THEN reqOptions.retryDelay ELSE 1000

C12_Backoff ==
    /\ Len(sleeps) >= 1 => sleeps[1] = C12_Base
    /\ \A k \in 1..(Len(sleeps) - 1) : sleeps[k + 1] = 2 * sleeps[k]
    /\ (reqOptions = [retryAttempts |-> 0, retryDelay |-> 0] /\ Len(sleeps) = 2)
          => sleeps = <<1000, 2000>>
    /\ reqPc = "thrown" => Len(sleeps) = Len(outcomes) - 1
    /\ reqPc = "returned" => Len(sleeps) = Len(outcomes) - 1
    /\ reqPc = "sleep" => Len(sleeps) = Len(outcomes)
    /\ reqPc = "call" => Len(sleeps) = Len(outcomes)
    /\ Len(sleeps) < C10_Limit

\* C12 witness: a request allowed four attempts has failed four times, after
\* waits of 1000, 2000 and 4000 ms
C12_Witness ==
    /\ reqPc = "thrown"
    /\ reqOptions = [retryAttempts |-> 4, retryDelay |-> 0]
    /\ calls = 4
    /\ sleeps = <<1000, 2000, 4000>>

\* C13: analyzeContent of APIService called with no text, an empty text or a
\* text of blanks only throws APIError 400, and analyzeContent of
\* ContentAnalyzer called with an empty or non-string content, or with no
\* analysis type, throws; neither call issues an HTTP request or changes the
\* registered callbacks.
C13_Blank(v) ==
    \/ v.type = "undefined"
    \/ v.type = "string" /\ \A i \in 1..Len(v.chars) : v.chars[i] = " "

C13_NoType(t1, t2) ==
    /\ t1.type = "undefined" \/ t1 = Str(<<>>)
    /\ t2.type = "undefined" \/ t2 = Str(<<>>)

C13_ValidationFirst ==
    [][ /\ \A text \in JsValues :
            (analyzeContent(text) /\ C13_Blank(text))
            => /\ reqPc' = "thrown"
               /\ reqResult' = [type |-> "error", status |-> 400]
               /\ calls' = 0 /\ fetched' = <<>>
               /\ UNCHANGED <<progressCallbacks, analysisCallbacks>>
        /\ \A content \in JsValues, t1 \in AnalysisTypes, t2 \in AnalysisTypes :
            ( /\ ContentAnalyzer_analyzeContent(content, t1, t2)
              /\ \/ content.type # "string"
                 \/ content = Str(<<>>)
                 \/ C13_NoType(t1, t2) )
            => /\ caPc' = "thrown"
               /\ caError' # ""
               /\ caFetches' = 0
               /\ UNCHANGED <<calls, fetched, progressCallbacks, analysisCallbacks>>
      ]_vars

\* C13 witness: both validations have rejected a call and no request was made
C13_Witness ==
    /\ reqPc = "thrown"
    /\ reqResult = [type |-> "error", status |-> 400]
    /\ calls = 0
    /\ caPc = "thrown"
    /\ caError = "Analysis type must be specified"
    /\ caFetches = 0

\* the categories of crisis patterns of which a pattern matches content, and
\* whether a context-exclusion pattern matches it
CrisisCategoriesIn(content) ==
    { m[1] : m \in { crisisPatterns[k] : k \in 1..Len(crisisPatterns) }
                   \cap UNION { matched(phrase) : phrase \in content } }

ExcludedContext(content) ==
    \E k \in 1..Len(contextExclusions) : test(contextExclusions[k], content)

\* C14: for a content matching a pattern of the suicide, self-harm, overdose,
\* violent-threat or illegal-content category the crisis check detects a
\* crisis and the assessment has riskLevel CRISIS, with or without a
\* context-exclusion pattern matching too.
C14_SevereAlwaysTrigger ==
    lastAssessment # << >> =>
        LET a == lastAssessment[1] IN
        (CrisisCategoriesIn(a.content)
            \cap { "activeSuicideIntent", "activeSelfHarmIntent",
                   "activeOverdoseIntent", "directViolentThreats",
                   "illegalContent" } # {})
        => /\ a.riskLevel = "CRISIS"
           /\ a.triggers # << >>

\* C15: checkCrisisIndicators records a trigger for a matching crisis
\* pattern iff no context-exclusion pattern matched or the severity of the
\* pattern's category is at least the threshold, 0.9 when an exclusion
\* pattern matched and 0.7 otherwise; a crisis is detected iff a trigger was
\* recorded.
C15_TriggerRule ==
    lastAssessment # << >> =>
        LET a == lastAssessment[1]
            check == checkCrisisIndicators(a.content)
            excluded == ExcludedContext(a.content)
            threshold == IF excluded THEN 90 ELSE 70
            Recorded(pattern) ==
                \E t \in 1..Len(check.triggers) :
                    /\ check.triggers[t].type = pattern[1]
                    /\ check.triggers[t].pattern = pattern[2]
        IN  /\ \A k \in 1..Len(crisisPatterns) :
                  LET pattern == crisisPatterns[k] IN
                  IF test(pattern, a.content)
                  THEN Recorded(pattern) <=>
                         (~excluded \/ getSeverityForCategory(pattern[1]) >= threshold)
                  ELSE ~Recorded(pattern)
            /\ check.detected <=> check.triggers # << >>
            /\ check.detected <=> a.riskLevel = "CRISIS"

\* C15 witness: with an exclusion pattern matched, the match of severity 1.0
\* has triggered and the match of severity 0.7 has not
C15_Witness ==
    /\ lastAssessment # << >>
    /\ lastAssessment[1].content =
          {"my doctor", "stuck in traffic with the kids", "just kidding"}
    /\ Len(lastAssessment[1].triggers) = 1
    /\ lastAssessment[1].triggers[1].type = "illegalContent"
    /\ lastAssessment[1].triggers[1].confidence = "low"

\* C16: a content that matches a pattern of activeSuicideIntent and no
\* context-exclusion pattern is assessed with riskLevel CRISIS and
\* requiresIntervention true.
C16_SuicidalIntentIsCrisis ==
    lastAssessment # << >> =>
        LET a == lastAssessment[1] IN
        ( /\ "activeSuicideIntent" \in CrisisCategoriesIn(a.content)
          /\ ~ExcludedContext(a.content) )
        => (a.riskLevel = "CRISIS" /\ a.requiresIntervention)

\* C16 witness: "I want to kill myself" alone has been assessed
C16_Witness ==
    /\ lastAssessment # << >>
    /\ lastAssessment[1].content = {"I want to kill myself"}
    /\ lastAssessment[1].riskLevel = "CRISIS"
    /\ lastAssessment[1].requiresIntervention

\* C17: when a context-exclusion pattern matches the content and no crisis
\* pattern of a category of severity 1.0 matches it, the assessment is not
\* CRISIS: every crisis match is recorded as suppressed and there is no
\* trigger.
C17_ExclusionSuppresses ==
    lastAssessment # << >> =>
        LET a == lastAssessment[1] IN
        ( /\ ExcludedContext(a.content)
          /\ \A category \in CrisisCategoriesIn(a.content) :
                getSeverityForCategory(category) < 100 )
        => /\ a.riskLevel # "CRISIS"
           /\ a.triggers = << >>
           /\ \A k \in 1..Len(a.crisisCheckResults) :
                 a.crisisCheckResults[k].type = "pattern_match"
                 => /\ ~a.crisisCheckResults[k].triggered
                    /\ a.crisisCheckResults[k].reason = "Suppressed due to context"

\* C17 witness: a trolling match (severity 0.7) beside a medical term was
\* suppressed
C17_Witness ==
    /\ lastAssessment # << >>
    /\ lastAssessment[1].content = {"my doctor", "just kidding"}
    /\ lastAssessment[1].riskLevel = "NONE"
    /\ \E k \in 1..Len(lastAssessment[1].crisisCheckResults) :
          /\ lastAssessment[1].crisisCheckResults[k].category = "trolling"
          /\ ~lastAssessment[1].crisisCheckResults[k].triggered

\* C18: if a crisis trigger fires the assessment has riskLevel CRISIS,
\* requiresIntervention true, no concerns, and the triggers of the crisis
\* check as its triggers, and the concern analysis has not run; if none
\* fires the concern analysis has run.
C18_CrisisShortCircuits ==
    lastAssessment # << >> =>
        LET a == lastAssessment[1]
            fired == \E k \in 1..Len(a.crisisCheckResults) :
                        /\ a.crisisCheckResults[k].type = "pattern_match"
                        /\ a.crisisCheckResults[k].triggered
        IN  IF fired
            THEN /\ a.riskLevel = "CRISIS"
                 /\ a.requiresIntervention
                 /\ a.concerns = << >>
                 /\ a.triggers = checkCrisisIndicators(a.content).triggers
                 /\ a.triggers # << >>
                 /\ a.analysisResults = << >>
            ELSE /\ Len(a.analysisResults) = 1
                 /\ a.riskLevel # "CRISIS"
                 /\ a.concerns = a.analysisResults[1].concerns

\* C18 witness: a content that matches a crisis pattern and a depression
\* pattern was assessed as a crisis without concerns
C18_Witness ==
    /\ lastAssessment # << >>
    /\ lastAssessment[1].content = {"I can't go on anymore", "hopeless"}
    /\ lastAssessment[1].riskLevel = "CRISIS"
    /\ lastAssessment[1].concerns = << >>
    /\ Len(lastAssessment[1].triggers) = 1

\* C19: without a crisis the overall severity is the mean of the severities
\* of the categories of concern with a match, each the fraction of the
\* category's patterns that match (0 without any), and riskLevel is HIGH from
\* 0.8, MEDIUM from 0.6, LOW from 0.3 and NONE below; requiresIntervention is
\* true iff riskLevel is HIGH or CRISIS.  Severities are counted in 360ths.
C19_Fraction(content, k) ==
    (360 * Cardinality({ i \in 1..Len(concernPatterns[k]) :
                           test(concernPatterns[k][i], content) }))
        \div Len(concernPatterns[k])

C19_Mean(content) ==
    LET concerned == { k \in 1..3 : C19_Fraction(content, k) > 0 }
        total == C19_Fraction(content, 1) + C19_Fraction(content, 2)
                 + C19_Fraction(content, 3)
    IN  IF concerned = {} THEN 0 ELSE total \div Cardinality(concerned)

C19_RiskLevels ==
    lastAssessment # << >> =>
        LET a == lastAssessment[1]
            s == C19_Mean(a.content)
        IN  /\ a.requiresIntervention <=> a.riskLevel \in {"HIGH", "CRISIS"}
            /\ a.riskLevel # "CRISIS" =>
                  /\ a.analysisResults[1].severity.num * 360
                        = s * a.analysisResults[1].severity.den
                  /\ a.riskLevel = "HIGH" <=> s >= 288
                  /\ a.riskLevel = "MEDIUM" <=> (s >= 216 /\ s < 288)
                  /\ a.riskLevel = "LOW" <=> (s >= 108 /\ s < 216)
                  /\ a.riskLevel = "NONE" <=> s < 108

\* C19 witness: two of the three anxiety patterns and no other give 2/3,
\* MEDIUM, without intervention
C19_Witness ==
    /\ lastAssessment # << >>
    /\ lastAssessment[1].content = {"panic attack", "always anxious"}
    /\ lastAssessment[1].riskLevel = "MEDIUM"
    /\ ~lastAssessment[1].requiresIntervention

\* C20: the assessment of "I feel so hopeless and worthless, nothing matters
\* anymore" has depression among its concerns and riskLevel MEDIUM or HIGH.
C20_HopelessInput ==
    ( /\ lastAssessment # << >>
      /\ lastAssessment[1].content =
            {"I feel so hopeless and worthless, nothing matters anymore"} )
    => /\ \E k \in 1..Len(lastAssessment[1].concerns) :
             lastAssessment[1].concerns[k].type = "depression"
       /\ lastAssessment[1].riskLevel \in {"MEDIUM", "HIGH"}

\* C21: the recommended resources of an assessment hold every self-help
\* service, the crisis services iff riskLevel is HIGH or CRISIS, the
\* professional-help services iff there is a concern, nothing else, and no
\* service twice.
C21_Resources ==
    lastAssessment # << >> =>
        LET a == lastAssessment[1]
            r == a.recommendedResources
            Has(services) == \A i \in 1..Len(services) :
                                \E j \in 1..Len(r) : r[j] = services[i]
            HasNone(services) == \A i \in 1..Len(services) :
                                    \A j \in 1..Len(r) : r[j] # services[i]
        IN  /\ Has(<<"Mindfulness Exercises", "Mental Health Apps">>)
            /\ IF a.riskLevel \in {"HIGH", "CRISIS"}
               THEN Has(<<"988 Suicide & Crisis Lifeline", "Crisis Text Line",
                          "RAINN Sexual Assault Hotline">>)
               ELSE HasNone(<<"988 Suicide & Crisis Lifeline", "Crisis Text Line",
                              "RAINN Sexual Assault Hotline">>)
            /\ IF a.concerns # << >>
               THEN Has(<<"SAMHSA Treatment Locator",
                          "Psychology Today Therapist Finder">>)
               ELSE HasNone(<<"SAMHSA Treatment Locator",
                              "Psychology Today Therapist Finder">>)
            /\ \A i, j \in 1..Len(r) : r[i] = r[j] => i = j
            /\ Len(r) = 2 + (IF a.riskLevel \in {"HIGH", "CRISIS"} THEN 3 ELSE 0)
                          + (IF a.concerns # << >> THEN 2 ELSE 0)

\* C21 witness: a LOW assessment with a concern got the self-help and the
\* professional-help services and no crisis service
C21_Witness ==
    /\ lastAssessment # << >>
    /\ lastAssessment[1].riskLevel = "LOW"
    /\ lastAssessment[1].concerns # << >>
    /\ Len(lastAssessment[1].recommendedResources) = 4

\* C22: a successful assessContent appends its assessment to the history of
\* its session id (the one of the context if it has one) and changes no
\* other history; clearSession(id) empties the history of id and changes no
\* other; a failed assessContent and setDebugMode change no history.  So
\* getSessionHistory(id) is, in call order, the assessments made with id
\* since the last clearSession(id).
C22_Ids == (Contexts \ {NoSessionId}) \cup generateSessionId

C23_GenericError ==
    assessOutcome \in {"none", "returned", "Content assessment failed"}

\* C24: for any input text, the empty string included, every category score,
\* every topic score and every style score of a classification lies in
\* [0, 1].  (analyzeTopics multiplies the fraction of keywords found by a
\* weight above 1 and does not clamp the product.)
C24_ScoresInUnitInterval ==
    LET InUnit(score) == score.num >= 0 /\ score.num <= score.den
        AllInUnit(table) == \A i \in DOMAIN table : InUnit(table[i].score)
    IN  /\ \A n \in DOMAIN ccPending :
              /\ AllInUnit(ccPending[n].categories)
              /\ AllInUnit(ccPending[n].topics)
              /\ AllInUnit(ccPending[n].style)
        /\ \A n \in DOMAIN ccReturned :
              /\ AllInUnit(ccReturned[n].result.topics)
              /\ AllInUnit(ccReturned[n].result.style)

\* C27: classifyContent ranks the categories by raw score, highest first and
\* equal scores in the order of the rule table, reports the first as primary
\* and the next two as secondary, each with its adjusted confidence, and
\* every reported confidence lies in [0, 1].
C27_Ranking ==
    [][ \A time \in 0..MaxClock :
          classifyContentResume(time) =>
            LET call == Head(ccPending)
                result == ccReturned'[1].result
                reported == <<result.primary>> \o result.secondary
                index(r) == CHOOSE i \in DOMAIN call.categories :
                               call.categories[i].name = reported[r].category
                score(i) == call.categories[i].score
                Ahead(i, j) == \/ LessThan(score(j), score(i))
                               \/ score(i) = score(j) /\ i < j
                adjusted(i) ==
                    LET byTopics == adjust(score(i),
                                           getRelevantTopics(call.categories[i].name),
                                           call.topics, Fraction(2, 10))
                    IN  adjust(byTopics, getRelevantStyles(call.categories[i].name),
                               call.style, Fraction(1, 10))
            IN  /\ Len(result.secondary) = 2
                /\ \A r \in 1..3 :
                      /\ \E i \in DOMAIN call.categories :
                            call.categories[i].name = reported[r].category
                      /\ \A j \in DOMAIN call.categories :
                            \/ \E q \in 1..r : index(q) = j
                            \/ Ahead(index(r), j)
                      /\ reported[r].confidence.num >= 0
                      /\ reported[r].confidence.num <= reported[r].confidence.den
                      /\ reported[r].confidence =
                            (IF LessThan(Fraction(1, 1), adjusted(index(r)))
                             THEN Fraction(1, 1) ELSE adjusted(index(r)))
      ]_vars

\* the text of the second block alone: ETHICAL (1/5) is ahead of PERSONAL
\* (13/70, adjusted to 6591/35000) and PROFESSIONAL (3/40)
C27_Witness ==
    /\ ccReturned # << >>
    /\ ccReturned[1].result.primary = [category |-> "ETHICAL", confidence |-> Fraction(1, 5)]
    /\ ccReturned[1].result.secondary =
          << [category |-> "PERSONAL", confidence |-> Fraction(6591, 35000)],
             [category |-> "PROFESSIONAL", confidence |-> Fraction(3, 40)] >>

\* C25: a call of classifyContent made while the cache holds an entry for
\* its text and options returns that entry and computes nothing; after
\* clearCache, the first call made with a text and options computes a fresh
\* result.  (A call that was waiting at its await when the cache was cleared
\* stores its result afterwards, and the next call is served that result.)
C25_ClearForcesRecompute ==
    [][ \A text \in CachedTexts, options \in Options :
          classifyContent(text, options) =>
            LET cacheKey == getCacheKey(text, options) IN
            /\ cacheKey \in DOMAIN cache =>
                  /\ ccReturned'[1].result = cache[cacheKey]
                  /\ ccPending' = ccPending
                  /\ cache' = cache
            /\ cacheKey \notin ccIssued =>
                  /\ Len(ccPending') = Len(ccPending) + 1
                  /\ ccReturned' = ccReturned
      ]_vars

\* C26: the cache key is the first 100 characters of the raw text with the
\* serialized options: a call is served from the cache exactly when the cache
\* has an entry with the same first 100 characters and the same serialized
\* options, and then it receives the result stored there, whichever text
\* that result was computed for.
C26_CacheKey ==
    [][ \A text \in CachedTexts, options \in Options :
          classifyContent(text, options) =>
            LET first100 == [ i \in 1..(IF Len(text) < 2 THEN Len(text) ELSE 2) |->
                                text[i] ]
                serialized == IF /\ "detailed" \in DOMAIN options
                                 /\ options.detailed = "true"
                              THEN [detailed |-> "true"] ELSE << >>
                entries == { k \in DOMAIN cache :
                               k[1] = first100 /\ k[2] = serialized }
            IN  IF entries # {}
                THEN /\ \A k \in entries :
                           ccReturned' = <<[text |-> text, result |-> cache[k]]>>
                     /\ UNCHANGED <<cache, ccPending>>
                ELSE /\ Len(ccPending') = Len(ccPending) + 1
                     /\ UNCHANGED <<cache, ccReturned>>
      ]_vars

\* a text of three blocks was served the result computed for another text
\* of three blocks with the same first two: the words counted are 8 + 11 + 8
\* where the text has 8 + 11 + 11
C26_Witness ==
    /\ ccReturned # << >>
    /\ Len(ccReturned[1].text) = 3
    /\ ccReturned[1].text[3] = "I FEEL my boss blames me, it is unfair and wrong!!"
    /\ ccReturned[1].result.metrics = [wordCount |-> 27, sentenceCount |-> 3]

\* C28: a request given to request with the queued option is retried like
\* one without it: it is rejected with the error of makeRequest only when
\* that error is not retryable or retryAttempts attempts were made.
\* (processQueue calls makeRequest once and rejects with whatever it throws.)
C28_QueuedRetried ==
    \A id \in DOMAIN promises :
        promises[id].state = "rejected" /\ promises[id].fetches > 0 =>
            rethrows(promises[id].status, promises[id].fetches, maxAttempts(0))

\* C29: whenever the WebSocket of APIService has been created, by the
\* constructor or by the polling callback, analyzeContent takes the path
\* with progress tracking: the response 'started' with a session_id
\* registers the callbacks under that id and joins the session; the
\* synchronous path is taken only without a socket.  (The constructor path
\* creates the socket and leaves isWebSocketInitialized false.)
C29_ProgressPath ==
    [][ \A i \in 1..MaxSubmissions :
          HttpResponse(i, "started") =>
            IF socket
            THEN i \in progressCallbacks' /\ i \in analysisCallbacks'
            ELSE UNCHANGED <<progressCallbacks, analysisCallbacks>>
      ]_vars

\* C30: once analysisResults holds a result, set by a completion or error
\* event or by a synchronous response, no firing timer, of this or of an
\* earlier submission, replaces it with the timed-out error.  (A submission
\* made while an analysis is running keeps isAnalyzing = true in the closure
\* of its timer and cancels only the timer before its own.)
C30_NoTimeoutAfterResult ==
    [][ \A i \in 1..MaxSubmissions :
          TimerFires(i) /\ analysisResults \notin {Null, TimeoutError} =>
            analysisResults' = analysisResults
      ]_vars

\* C32: of two calls of classifyContent with the same cache key, the second
\* made before the first has resolved, only one computes the classification:
\* no two calls with one key are waiting at the await at the same time.
\* (The key is looked up before the await and stored after it.)
C32_ComputedOnce ==
    \A m, n \in DOMAIN ccPending :
        m # n => ccPending[m].cacheKey # ccPending[n].cacheKey

\* C40: in every classification result the confidence of the primary
\* category is at least the confidence of each secondary category.  (The
\* ranking is by raw score, the confidence is the score after adjustments
\* that differ from category to category.)
C40_PrimaryMostConfident ==
    \A n \in DOMAIN ccReturned :
        \A r \in DOMAIN ccReturned[n].result.secondary :
            ~LessThan(ccReturned[n].result.primary.confidence,
                      ccReturned[n].result.secondary[r].confidence)

\* C37: after any sequence of assessContent and clearSession calls,
\* activeSessions is the set of the session ids that have a history, and no
\* history that is present is empty.
C37_ActiveSessions ==
    /\ activeSessions = DOMAIN interventionHistory
    /\ \A s \in DOMAIN interventionHistory : interventionHistory[s] # << >>

\* one session was cleared while another has a history
C37_Witness ==
    /\ activeSessions = {"s1"}
    /\ Len(interventionHistory["s1"]) = 2
    /\ lastAssessment # << >>
    /\ lastAssessment[1].sessionId = "g1"

C39_Monotone ==
    LET rank(level) == CASE level = "NONE" -> 0 [] level = "LOW" -> 1
                         [] level = "MEDIUM" -> 2 [] level = "HIGH" -> 3
                         [] OTHER -> 4
    IN  \A n \in DOMAIN lastAssessment :
          \A phrase \in Phrases :
            LET A == lastAssessment[n]
                B == Assessment(A.content \cup {phrase}, A.sessionId)
            IN  /\ Cardinality(A.content \cup {phrase}) <= MaxPhrases
                /\ A.riskLevel # "CRISIS"
                /\ B.riskLevel # "CRISIS"
                => rank(B.riskLevel) >= rank(A.riskLevel)

\* C35: the initialization of AppContainer always completes: whether the
\* first getApiConfig succeeds, fails or never answers, isInitializing
\* becomes false and stays false, and once it is false hasApiKey is true only
\* if the configuration was fetched and carried a non-empty API key
C35_InitializationCompletes ==
    /\ <>[](~isInitializing)
    /\ [](~isInitializing /\ hasApiKey =>
            /\ apiConfig.kind = "config"
            /\ apiConfig.api_key.type = "string"
            /\ apiConfig.api_key.chars # <<>>)

\* the timer ended the initialization without a key, and the configuration
\* with a key arrived afterwards
C35_Witness ==
    /\ ~isInitializing
    /\ ~hasApiKey
    /\ ~initTimer
    /\ apiService.hasApiKey
    /\ apiConfig.kind = "config"
    /\ calls = 2

\* C33: the queued requests are made in the order they were queued and one
\* at a time: the flag isProcessingQueue is set exactly while a processQueue
\* loop is running, that loop has at most one request in flight, the queue
\* holds the pending requests in the order of their arrival, and the request
\* in flight is pending, was fetched at most once and follows only requests
\* that have been settled or cancelled
C33_FifoOneAtATime ==
    /\ isProcessingQueue <=> queuePc # "idle"
    /\ processing # 0 <=> queuePc = "makeRequest"
    /\ \A m, n \in DOMAIN requestQueue : m < n => requestQueue[m] < requestQueue[n]
    /\ \A m \in DOMAIN requestQueue :
          /\ promises[requestQueue[m]].state = "pending"
          /\ processing # 0 => processing < requestQueue[m]
    /\ \A id \in DOMAIN promises :
          /\ promises[id].fetches <= 1
          /\ promises[id].fetches = 1 /\ id # processing
                => \A earlier \in 1..(id - 1) : promises[earlier].state # "pending"
    /\ processing # 0 =>
          /\ promises[processing].state = "pending"
          /\ \A earlier \in 1..(processing - 1) :
                promises[earlier].state # "pending"

\* the second request is in flight after the first was fetched and settled,
\* and the third waits in the queue
C33_Witness ==
    /\ processing = 2
    /\ requestQueue = <<3>>
    /\ isProcessingQueue
    /\ promises[1].fetches = 1
    /\ promises[1].state = "rejected"
    /\ promises[1].status = 503

C31_EventNeverLost ==
    [][ \A s \in 1..MaxSubmissions :
          /\ (AnalysisComplete(s) /\ s = currentSessionId) =>
                analysisResults' = [kind |-> "complete", of |-> s] /\ ~isAnalyzing'
          /\ (AnalysisError(s) /\ s = currentSessionId) =>
                analysisResults' = [kind |-> "wsError", of |-> s] /\ ~isAnalyzing'
      ]_vars

\* C36: after handleBackToMainMenu the analysis state stays reset until the
\* next handleAnalyze: while the main menu is shown (handleAnalyze is only
\* reachable from an analysis view) isAnalyzing is false, analysisResults is
\* null, progress is 0 and currentSessionId is null, whatever arrives for the
\* abandoned analysis.  (The continuation of the abandoned handleAnalyze and
\* its onProgress callback still set this state.)
C36_StaysReset ==
    currentView = "mainMenu" =>
        /\ ~isAnalyzing
        /\ analysisResults = Null
        /\ progress = 0
        /\ currentSessionId = 0

====
